---- MODULE Spec2Model ----
(***************************************************************************)
(* Reminder pipeline of sheet-tasker (src/src/manage-taskSheets.js):       *)
(* ReminderManager.getReminderData (checkpointed scan of the task sheets), *)
(* ReminderManager.shareRemindersByDoc (gate check, rendering, mail),      *)
(* the one-time continuation triggers and the explicit reset of            *)
(* src/src/setting.js.                                                     *)
(*                                                                         *)
(* Script properties are one key-value store `props` (string keys).  A     *)
(* JSON payload is stored as a record [wellFormed, value]; JSON.stringify  *)
(* is ToJSON/Stringify below (a Date becomes its ISO string), JSON.parse   *)
(* returns the value.  Time is counted in ticks, TicksPerDay ticks a day;  *)
(* a Date is a tick, midnight is a multiple of TicksPerDay.                *)
(* Sheet indices are 0-based as in the source: sheet i is sheets[i + 1].   *)
(***************************************************************************)
EXTENDS Integers, Sequences, FiniteSets, TLC

\* ------------------------------------------------------------------ bounds
MaxSheets == 3      \* longest source list drawn by Init
MaxRuns == 2        \* external (menu / recurring trigger) invocations
MaxTriggers == 2    \* one-time triggers created in one behaviour
TicksPerDay == 2    \* resolution of the time of day
WeeksOfNow == 4     \* weeks of moments at which validDates is computed
MaxStaffSubmitted == 1  \* staff members in one call of storeReminderInfo

\* ------------------------------------------------------------ cell values
\* A cell value of getValues(): a string, a Date or a boolean.
Str(s) == [t |-> "str", s |-> s, n |-> 0]
DateV(n) == [t |-> "date", s |-> "", n |-> n]
Bool(b) == [t |-> "bool", s |-> "", n |-> IF b THEN 1 ELSE 0]
EmptyCell == Str("")

\* JavaScript truthiness of a cell value ("" and false are falsy).
Truthy(c) == CASE c.t = "str" -> c.s # ""
               [] c.t = "bool" -> c.n = 1
               [] OTHER -> TRUE

\* Date.prototype.toJSON: the ISO string of the instant n.
IsoString(n) == [t |-> "str", s |-> "iso", n |-> n]

\* What JSON.stringify followed by JSON.parse leaves of one cell value.
CellToJSON(c) == IF c.t = "date" THEN IsoString(c.n) ELSE c

\* variables.js
ONGOING_TASKS_INDEX_SHEET_NAME == "ongoing-task-index"
COMPLETED_TASKS_INDEX_SHEET_NAME == "completed-task-index"
SCRIPT_PROPERTY_KEY_GENERAL_REMINDER_EMAILS == "GENERAL_REMINDER_EMAILS"
SCRIPT_PROPERTY_KEY_GENERAL_REM_DOC_URL == "GENERAL_REM_DOC_URL"
SCRIPT_PROPERTY_KEY_STAFFBASED_REM_DATA == "STAFFBASED_REM_DATA"

\* ------------------------------------------------------------------- keys
Targets == {"general", "staffBased"}
Periods == {"today", "week"}
Keys == [target : Targets, period : Periods]

\* String.prototype.toUpperCase on the four words the keys are built from.
toUpperCase(w) == CASE w = "general" -> "GENERAL"
                    [] w = "staffBased" -> "STAFFBASED"
                    [] w = "today" -> "TODAY"
                    [] w = "week" -> "WEEK"

\* w.charAt(0).toUpperCase() + w.slice(1)
Capitalize(w) == CASE w = "general" -> "General"
                   [] w = "staffBased" -> "StaffBased"
                   [] w = "today" -> "Today"
                   [] w = "week" -> "Week"

storedDataKey(k) ==
  "SCRIPT_PROPERTY_KEY_STORED_REMINDERS_" \o toUpperCase(k.target) \o "_" \o toUpperCase(k.period)
currentSheetIndexKey(k) ==
  "SCRIPT_PROPERTY_KEY_CURRENT_SHEET_INDEX_" \o toUpperCase(k.target) \o "_" \o toUpperCase(k.period)
getCompletionStatusKey_TargetOnly(k) ==
  "SCRIPT_PROPERTY_KEY_COMPLETION_STATUS_" \o toUpperCase(k.target)
getCompletionStatusKey(k) ==
  "SCRIPT_PROPERTY_KEY_COMPLETION_STATUS_" \o toUpperCase(k.target) \o "_" \o toUpperCase(k.period)

\* ------------------------------------------------------- script properties
HasProperty(p, key) == key \in DOMAIN p
setProperty(p, key, v) == [x \in DOMAIN p \cup {key} |-> IF x = key THEN v ELSE p[x]]
deleteProperty(p, key) == [x \in DOMAIN p \ {key} |-> p[x]]
NoProperties == [x \in {} |-> 0]

\* The text JSON.stringify writes for a value whose Dates were converted.
JSONText(v) == [wellFormed |-> TRUE, value |-> v]

\* ---------------------------------------------------------------- the scan
\* Date.getDay(): 0 is Sunday, 6 is Saturday.
getDay(n) == (n \div TicksPerDay) % 7
IsWeekend(n) == getDay(n) = 0 \/ getDay(n) = 6

\* nextDate.setDate(nextDate.getDate() + 1) and the while loop skipping weekends
RECURSIVE SkipWeekend(_)
SkipWeekend(n) == IF IsWeekend(n) THEN SkipWeekend(n + TicksPerDay) ELSE n
NextValidDate_NoSkip(n) == n + TicksPerDay
NextValidDate(n) == SkipWeekend(n + TicksPerDay)

\* validDates: today and the five dates the loop pushes.
RECURSIVE PushValidDates(_, _, _)
PushValidDates(acc, nextDate, i) ==
  IF i > 5 THEN acc
  ELSE PushValidDates(Append(acc, NextValidDate(nextDate)), NextValidDate(nextDate), i + 1)
validDates(todayT) == PushValidDates(<<todayT>>, todayT, 1)

\* ReminderManager.formatEnglishDate: weekday, month, day and year of the date
\* (the time of day is not printed).
formatEnglishDate(d) == [t |-> "str", s |-> "english", n |-> d.n \div TicksPerDay]

isFutureValidDate(d, todayT) == \E j \in 1..Len(validDates(todayT)) : validDates(todayT)[j] = d.n

\* The inclusion test of one data row (the row has a date).
Included_WeekFutureOnly(row, period, todayT) ==
  IF period = "today" THEN ~Truthy(row.checkbox) /\ row.date.n <= todayT
  ELSE IF period = "week"
       THEN ~Truthy(row.checkbox) /\ isFutureValidDate(row.date, todayT)
       ELSE FALSE
Included(row, period, todayT) ==
  IF period = "today" THEN ~Truthy(row.checkbox) /\ row.date.n <= todayT
  ELSE IF period = "week"
       THEN ~Truthy(row.checkbox) /\ (row.date.n <= todayT \/ isFutureValidDate(row.date, todayT))
       ELSE FALSE

Reminder(item, note, date, staff) == [item |-> item, note |-> note, date |-> date, staff |-> staff]
SheetReminder(sheetName, sheetURL, taskData) ==
  [sheetName |-> sheetName, sheetURL |-> sheetURL, taskData |-> taskData]

\* getNextDataCell(UP) from the bottom of column B: the last data row whose
\* item cell is filled, 0 when no data row has one (then lastRow is the header).
RECURSIVE LastFilled(_, _)
LastFilled(rows, i) ==
  IF i = 0 THEN 0
  ELSE IF rows[i].item # EmptyCell THEN i ELSE LastFilled(rows, i - 1)

\* The row loop of one sheet: rows 1..last in order.
RECURSIVE CollectTasks(_, _, _, _, _, _)
CollectTasks(rows, i, last, period, todayT, taskData) ==
  IF i > last THEN taskData
  ELSE IF ~Truthy(rows[i].date)
       THEN CollectTasks(rows, i + 1, last, period, todayT, taskData)
       ELSE IF Included(rows[i], period, todayT)
            THEN CollectTasks(rows, i + 1, last, period, todayT,
                   Append(taskData, Reminder(rows[i].item, rows[i].note,
                                             formatEnglishDate(rows[i].date), rows[i].staff)))
            ELSE CollectTasks(rows, i + 1, last, period, todayT, taskData)

sheetURL(sheet) == "#gid=" \o ToString(sheet.gid)

\* The body of the sheet loop for one sheet: reminderData after the sheet.
ScanSheet_AlwaysPush(reminderData, sheet, period, todayT) ==
  IF sheet.name # ONGOING_TASKS_INDEX_SHEET_NAME /\ sheet.name # COMPLETED_TASKS_INDEX_SHEET_NAME
  THEN Append(reminderData,
              SheetReminder(sheet.name, sheetURL(sheet),
                            CollectTasks(sheet.rows, 1, LastFilled(sheet.rows, Len(sheet.rows)),
                                         period, todayT, <<>>)))
  ELSE reminderData
ScanSheet_NoNameTest(reminderData, sheet, period, todayT) ==
  LET taskData == CollectTasks(sheet.rows, 1, LastFilled(sheet.rows, Len(sheet.rows)),
                               period, todayT, <<>>)
  IN IF Len(taskData) > 0
     THEN Append(reminderData, SheetReminder(sheet.name, sheetURL(sheet), taskData))
     ELSE reminderData
ScanSheet_Prepend(reminderData, sheet, period, todayT) ==
  IF sheet.name # ONGOING_TASKS_INDEX_SHEET_NAME /\ sheet.name # COMPLETED_TASKS_INDEX_SHEET_NAME
  THEN LET taskData == CollectTasks(sheet.rows, 1, LastFilled(sheet.rows, Len(sheet.rows)),
                                    period, todayT, <<>>)
       IN IF Len(taskData) > 0
          THEN <<SheetReminder(sheet.name, sheetURL(sheet), taskData)>> \o reminderData
          ELSE reminderData
  ELSE reminderData
ScanSheet(reminderData, sheet, period, todayT) ==
  IF sheet.name # ONGOING_TASKS_INDEX_SHEET_NAME /\ sheet.name # COMPLETED_TASKS_INDEX_SHEET_NAME
  THEN LET taskData == CollectTasks(sheet.rows, 1, LastFilled(sheet.rows, Len(sheet.rows)),
                                    period, todayT, <<>>)
       IN IF Len(taskData) > 0
          THEN Append(reminderData, SheetReminder(sheet.name, sheetURL(sheet), taskData))
          ELSE reminderData
  ELSE reminderData

\* The sheet loop from index i up to (not including) index stop.
RECURSIVE ScanFrom_Inclusive(_, _, _, _, _, _)
ScanFrom_Inclusive(reminderData, shs, i, stop, period, todayT) ==
  IF i > stop \/ i >= Len(shs) THEN reminderData
  ELSE ScanFrom_Inclusive(ScanSheet(reminderData, shs[i + 1], period, todayT), shs, i + 1, stop, period, todayT)
RECURSIVE ScanFrom(_, _, _, _, _, _)
ScanFrom(reminderData, shs, i, stop, period, todayT) ==
  IF i >= stop \/ i >= Len(shs) THEN reminderData
  ELSE ScanFrom(ScanSheet(reminderData, shs[i + 1], period, todayT), shs, i + 1, stop, period, todayT)

\* JSON.stringify(this.reminderData) read back by JSON.parse.
ReminderToJSON(r) == Reminder(CellToJSON(r.item), CellToJSON(r.note), CellToJSON(r.date), CellToJSON(r.staff))
SheetReminderToJSON(sr) ==
  SheetReminder(sr.sheetName, sr.sheetURL, [j \in 1..Len(sr.taskData) |-> ReminderToJSON(sr.taskData[j])])
ToJSON(reminderData) == [j \in 1..Len(reminderData) |-> SheetReminderToJSON(reminderData[j])]
Stringify(reminderData) == JSONText(ToJSON(reminderData))

\* i.toString() and parseInt of it.
toString(i) == ToString(i)
parseInt(s) == CHOOSE n \in 0..(MaxSheets + 2) : ToString(n) = s

\* ------------------------------------------------------------- the world
VARIABLES
  props,          \* PropertiesService.getScriptProperties(): key -> value
  triggers,       \* ScriptApp.getProjectTriggers(): records [id, handler, fired]
  nextTriggerId,  \* the id the next created trigger gets
  sheets,         \* this.ss.getSheets(), in enumeration order
  today,          \* the current date at midnight (a tick)
  inv,            \* the executions in flight: position and local variables
  docs,           \* the Google Docs, by document id
  outbox,         \* the mail sent by the most recent dispatch
  runs,           \* number of external invocations so far
  last,           \* the step taken last: operation, key, what it observed
  cycle,          \* history: per key, whether a scan cycle is open and how often
                  \* it set the gate COMPLETED and dispatch took the COMPLETED branch
  call            \* a single call of one method: its arguments and its result

vars == <<props, triggers, nextTriggerId, sheets, today, inv, docs, outbox, runs, last, cycle, call>>

MaxProcs == 2
Procs == 1..MaxProcs
DocIds == 1..3

\* A document URL: the document it names and whether a "/" follows the id
\* ("https://docs.google.com/document/d/<id>/edit" against ".../d/<id>").
Url(d, tail) == [doc |-> d, tail |-> tail]
NullUrl == Url(0, FALSE)

Midnight(day) == day * TicksPerDay

\* -------------------------------------------------------------- the inputs
FridayDay == 7 + 5     \* day 0 is a Sunday: the Friday of the second week
TodayChoices == {Midnight(FridayDay)}

rowDue == [item |-> Str("t1"), note |-> Str("n1"), date |-> DateV(Midnight(FridayDay - 1)),
           staff |-> Str("A"), checkbox |-> Bool(FALSE)]
rowDateItem == [item |-> DateV(Midnight(FridayDay + 8)), note |-> Str("n2"), date |-> DateV(Midnight(FridayDay)),
                staff |-> Str("B"), checkbox |-> Bool(FALSE)]
rowNextWeek == [item |-> Str("t3"), note |-> EmptyCell, date |-> DateV(Midnight(FridayDay + 3)),
                staff |-> Str("A"), checkbox |-> Bool(FALSE)]
rowDone == [item |-> Str("t4"), note |-> Str("n4"), date |-> DateV(Midnight(FridayDay - 1)),
            staff |-> Str("B"), checkbox |-> Bool(TRUE)]
rowNoDate == [item |-> Str("t5"), note |-> Str("n5"), date |-> EmptyCell,
              staff |-> Str("A"), checkbox |-> Bool(FALSE)]
rowWeekend == [item |-> Str("t6"), note |-> EmptyCell, date |-> DateV(Midnight(FridayDay + 1)),
               staff |-> Str("A"), checkbox |-> Bool(FALSE)]
rowNoonToday == [item |-> Str("t7"), note |-> EmptyCell, date |-> DateV(Midnight(FridayDay) + 1),
                 staff |-> Str("B"), checkbox |-> Bool(FALSE)]
rowTrailing == [item |-> EmptyCell, note |-> EmptyCell, date |-> DateV(Midnight(FridayDay - 1)),
                staff |-> Str("A"), checkbox |-> Bool(FALSE)]

Sheet(name, gid, rows) == [name |-> name, gid |-> gid, rows |-> rows]
shA == Sheet("ProjA", 1, <<rowDue, rowNextWeek>>)
shIndex == Sheet(ONGOING_TASKS_INDEX_SHEET_NAME, 2, <<rowDue>>)
shNone == Sheet("ProjC", 3, <<rowDone, rowNoDate, rowWeekend, rowNoonToday>>)
shB == Sheet("ProjB", 4, <<rowDateItem, rowDue, rowTrailing>>)
shEmpty == Sheet("ProjE", 5, <<>>)
shDoneIndex == Sheet(COMPLETED_TASKS_INDEX_SHEET_NAME, 6, <<rowDue>>)

\* The source lists: the prefixes of two spreadsheets.
Spreadsheet1 == <<shA, shIndex, shNone, shB, shEmpty>>
Spreadsheet2 == <<shB, shNone, shA, shDoneIndex, shEmpty>>
SheetLists == {SubSeq(m, 1, n) : m \in {Spreadsheet1, Spreadsheet2}, n \in 1..MaxSheets}

\* The stored settings: as storeReminderInfo and the other setting dialogs
\* write them (a URL is null or names an existing Google Doc).
StaffObject(name, email, todayUrl, weekUrl) ==
  [name |-> name, email |-> email, todayReminderUrl |-> todayUrl, nextWeekReminderUrl |-> weekUrl]
ConfigA ==
  (SCRIPT_PROPERTY_KEY_GENERAL_REMINDER_EMAILS :> JSONText(<<"g1@demo", "g2@demo">>))
  @@ (SCRIPT_PROPERTY_KEY_GENERAL_REM_DOC_URL :>
        JSONText([generalTodayReminderDocUrl |-> Url(1, TRUE), generalWeekReminderDocUrl |-> NullUrl]))
  @@ (SCRIPT_PROPERTY_KEY_STAFFBASED_REM_DATA :>
        JSONText(<<StaffObject("A", "a@demo", Url(2, TRUE), NullUrl),
                   StaffObject("B", "b@demo", NullUrl, Url(3, TRUE))>>))
ConfigB ==
  (SCRIPT_PROPERTY_KEY_GENERAL_REMINDER_EMAILS :> JSONText(<<"g1@demo">>))
  @@ (SCRIPT_PROPERTY_KEY_GENERAL_REM_DOC_URL :>
        JSONText([generalTodayReminderDocUrl |-> NullUrl, generalWeekReminderDocUrl |-> Url(1, FALSE)]))
  @@ (SCRIPT_PROPERTY_KEY_STAFFBASED_REM_DATA :>
        JSONText(<<StaffObject("B", "b@demo", Url(2, FALSE), Url(3, TRUE)),
                   StaffObject("A", "a@demo", Url(1, TRUE), Url(2, TRUE))>>))
Configs == {ConfigA, ConfigB, NoProperties}

NoKey == [target |-> "", period |-> ""]
Undefined == [isArray |-> FALSE, value |-> <<>>]
Array(v) == [isArray |-> TRUE, value |-> v]
IdleInv == [pc |-> "idle", key |-> NoKey, reminderData |-> <<>>, currentSheetIndex |-> 0,
            parseError |-> FALSE, ret |-> Undefined]
NoCycle == [open |-> FALSE, done |-> 0, consumed |-> 0]
NewCycle == [open |-> TRUE, done |-> 0, consumed |-> 0]
NoCall == [fn |-> "", done |-> FALSE]
BlankDoc == [name |-> "", body |-> <<>>]

Init ==
  /\ props \in Configs
  /\ triggers = {}
  /\ nextTriggerId = 1
  /\ sheets \in SheetLists
  /\ today \in TodayChoices
  /\ inv = [p \in Procs |-> IdleInv]
  /\ docs = [d \in DocIds |-> BlankDoc]
  /\ outbox = <<>>
  /\ runs = 0
  /\ last = [op |-> "init", key |-> NoKey, outcome |-> ""]
  /\ cycle = [k \in Keys |-> NoCycle]
  /\ call = NoCall

\* ------------------------------------------------------------ the triggers
\* The entry points defined at the end of manage-taskSheets.js and the
\* ReminderManager each of them constructs.
EntryPoints == {"runGeneralReminderToday", "runGeneralReminderWeek",
                "runStaffBasedReminderToday", "runStaffBasedReminderNextWeek"}
EntryPointKey(fn) ==
  CASE fn = "runGeneralReminderToday" -> [target |-> "general", period |-> "today"]
    [] fn = "runGeneralReminderWeek" -> [target |-> "general", period |-> "week"]
    [] fn = "runStaffBasedReminderToday" -> [target |-> "staffBased", period |-> "today"]
    [] fn = "runStaffBasedReminderNextWeek" -> [target |-> "staffBased", period |-> "week"]

\* createOneTimeTrigger: the handler name it computes.
triggerFunctionName(k) == "run" \o Capitalize(k.target) \o "Reminder" \o Capitalize(k.period)

getUniqueId(t) == ToString(t.id)
TriggerInfo(id, k) == JSONText([id |-> ToString(id), target |-> k.target, period |-> k.period])

\* createOneTimeTrigger: the project triggers and the properties after it.
TriggersAfterCreate(trigs, id, k) ==
  trigs \cup {[id |-> id, handler |-> triggerFunctionName(k), fired |-> FALSE, recurring |-> FALSE]}
PropsAfterCreate(p, id, k) == setProperty(p, ToString(id), TriggerInfo(id, k))

\* deleteOneTimeTriggers: the triggers whose side record names target and period.
OwnedTriggers(trigs, p, k) ==
  {t \in trigs : /\ HasProperty(p, getUniqueId(t))
                 /\ p[getUniqueId(t)].value.target = k.target
                 /\ p[getUniqueId(t)].value.period = k.period}
TriggersAfterDelete_All(trigs, p, k) == {}
TriggersAfterDelete(trigs, p, k) == trigs \ OwnedTriggers(trigs, p, k)
PropsAfterDelete_KeepRecords(trigs, p, k) == p
PropsAfterDelete(trigs, p, k) ==
  [x \in DOMAIN p \ {getUniqueId(t) : t \in OwnedTriggers(trigs, p, k)} |-> p[x]]

\* ------------------------------------------------- getReminderData, start
\* Lines 580-602: the gate is set to 'NOT YET', then the checkpoint is loaded.
LoadedReminderData(p, k) ==
  IF HasProperty(p, storedDataKey(k)) /\ p[storedDataKey(k)].wellFormed
  THEN p[storedDataKey(k)].value
  ELSE <<>>
LoadedSheetIndex_Zero(p, k) == 0
LoadedSheetIndex(p, k) ==
  IF HasProperty(p, currentSheetIndexKey(k)) THEN parseInt(p[currentSheetIndexKey(k)]) ELSE 0
\* Lines 591-597: JSON.parse threw and the catch branch logged the error.
ParseError(p, k) == HasProperty(p, storedDataKey(k)) /\ ~p[storedDataKey(k)].wellFormed
\* A checkpoint of the key is stored: the scan that starts continues a cycle.
HasCheckpoint(p, k) ==
  HasProperty(p, storedDataKey(k)) \/ HasProperty(p, currentSheetIndexKey(k))

\* Line 588: this.scriptProperties.setProperty(completionStatusKey,'NOT YET')
PropsAfterBegin_Skip(p, k) == p
PropsAfterBegin(p, k) == setProperty(p, getCompletionStatusKey(k), "NOT YET")

\* Executions do not overlap: one starts when none is in flight.
LowestIdle(p) == \A q \in Procs : q < p => inv[q].pc # "idle"

BeginEffect(p, k) ==
  /\ props' = PropsAfterBegin(props, k)
  /\ inv' = [inv EXCEPT ![p] = [pc |-> "scan", key |-> k,
                                 reminderData |-> LoadedReminderData(props, k),
                                 currentSheetIndex |-> LoadedSheetIndex(props, k),
                                 parseError |-> ParseError(props, k),
                                 ret |-> Undefined]]
  /\ last' = [op |-> "begin", key |-> k, outcome |-> ""]
  /\ cycle' = IF HasCheckpoint(props, k) THEN cycle ELSE [cycle EXCEPT ![k] = NewCycle]
  /\ UNCHANGED <<nextTriggerId, sheets, today, docs, outbox, call>>

Begin(p, k) ==
  /\ inv[p].pc = "idle" /\ LowestIdle(p)
  /\ \A q \in Procs : inv[q].pc = "idle"
  /\ BeginEffect(p, k)

\* An entry point run from the editor, the menu or a recurring trigger.
RunEntryPoint(p, fn) ==
  /\ runs < MaxRuns
  /\ runs' = runs + 1
  /\ Begin(p, EntryPointKey(fn))
  /\ UNCHANGED triggers

\* A one-time trigger fires: its handler runs if the project defines it.
\* A fired one-time trigger stays in the list of getProjectTriggers until
\* ScriptApp.deleteTrigger removes it.
FireTrigger(p, t) ==
  /\ t \in triggers /\ ~t.fired /\ ~t.recurring
  /\ t.handler \in EntryPoints
  /\ triggers' = (triggers \ {t}) \cup {[t EXCEPT !.fired = TRUE]}
  /\ Begin(p, EntryPointKey(t.handler))
  /\ UNCHANGED runs

\* A one-time trigger fires whose handler is not a function of the project:
\* the execution fails ("Script function not found") and nothing runs.
FireUndefined(t) ==
  /\ t \in triggers /\ ~t.fired /\ ~t.recurring
  /\ t.handler \notin EntryPoints
  /\ \A q \in Procs : inv[q].pc = "idle"
  /\ triggers' = (triggers \ {t}) \cup {[t EXCEPT !.fired = TRUE]}
  /\ last' = [op |-> "fire-undefined", key |-> NoKey, outcome |-> t.handler]
  /\ UNCHANGED <<props, nextTriggerId, sheets, today, inv, docs, outbox, runs, cycle, call>>

\* ----------------------------------------------- getReminderData, the loop
\* Lines 615-623: the budget is exceeded at the check before sheet i.
PropsAfterTimeout_StaleCursor(p, k, reminderData, i, id) ==
  PropsAfterCreate(
    setProperty(setProperty(p, storedDataKey(k), Stringify(reminderData)),
                currentSheetIndexKey(k), toString(IF i > 0 THEN i - 1 ELSE 0)),
    id, k)
PropsAfterTimeout_NoSave(p, k, reminderData, i, id) == PropsAfterCreate(p, id, k)
PropsAfterTimeout_SetsDone(p, k, reminderData, i, id) ==
  setProperty(
    PropsAfterCreate(
      setProperty(setProperty(p, storedDataKey(k), Stringify(reminderData)),
                  currentSheetIndexKey(k), toString(i)),
      id, k),
    getCompletionStatusKey(k), "COMPLETED")
PropsAfterTimeout(p, k, reminderData, i, id) ==
  PropsAfterCreate(
    setProperty(setProperty(p, storedDataKey(k), Stringify(reminderData)),
                currentSheetIndexKey(k), toString(i)),
    id, k)

ScanTimeout_ReportsCompletion(p, i) ==
  /\ inv[p].pc = "scan"
  /\ i >= inv[p].currentSheetIndex /\ i < Len(sheets)
  /\ nextTriggerId <= MaxTriggers
  /\ LET k == inv[p].key
         reminderData == ScanFrom(inv[p].reminderData, sheets, inv[p].currentSheetIndex, i,
                                  k.period, today)
     IN /\ props' = PropsAfterTimeout_SetsDone(props, k, reminderData, i, nextTriggerId)
        /\ triggers' = TriggersAfterCreate(triggers, nextTriggerId, k)
        /\ nextTriggerId' = nextTriggerId + 1
        /\ inv' = [inv EXCEPT ![p].pc = "dispatch", ![p].reminderData = reminderData,
                               ![p].currentSheetIndex = i, ![p].ret = Array(reminderData)]
        /\ last' = [op |-> "timeout", key |-> k, outcome |-> toString(i)]
  /\ UNCHANGED <<sheets, today, docs, outbox, runs, cycle, call>>
ScanTimeout(p, i) ==
  /\ inv[p].pc = "scan"
  /\ i >= inv[p].currentSheetIndex /\ i < Len(sheets)
  /\ nextTriggerId <= MaxTriggers
  /\ LET k == inv[p].key
         reminderData == ScanFrom(inv[p].reminderData, sheets, inv[p].currentSheetIndex, i,
                                  k.period, today)
     IN /\ props' = PropsAfterTimeout(props, k, reminderData, i, nextTriggerId)
        /\ triggers' = TriggersAfterCreate(triggers, nextTriggerId, k)
        /\ nextTriggerId' = nextTriggerId + 1
        /\ inv' = [inv EXCEPT ![p].pc = "dispatch", ![p].reminderData = reminderData,
                               ![p].currentSheetIndex = i, ![p].ret = Undefined]
        /\ last' = [op |-> "timeout", key |-> k, outcome |-> toString(i)]
  /\ UNCHANGED <<sheets, today, docs, outbox, runs, cycle, call>>

\* Lines 695-703: every remaining sheet was read within the budget.
PropsAfterComplete_KeepCheckpoint(trigs, p, k) ==
  setProperty(PropsAfterDelete(trigs, p, k), getCompletionStatusKey(k), "COMPLETED")
PropsAfterComplete_NoDone(trigs, p, k) ==
  PropsAfterDelete(trigs,
                   deleteProperty(deleteProperty(p, storedDataKey(k)), currentSheetIndexKey(k)),
                   k)
PropsAfterComplete(trigs, p, k) ==
  setProperty(
    PropsAfterDelete(trigs,
                     deleteProperty(deleteProperty(p, storedDataKey(k)), currentSheetIndexKey(k)),
                     k),
    getCompletionStatusKey(k), "COMPLETED")

ScanComplete(p) ==
  /\ inv[p].pc = "scan"
  /\ LET k == inv[p].key
         reminderData == ScanFrom(inv[p].reminderData, sheets, inv[p].currentSheetIndex,
                                  Len(sheets), k.period, today)
     IN /\ props' = PropsAfterComplete(triggers, props, k)
        /\ triggers' = TriggersAfterDelete(triggers, props, k)
        /\ inv' = [inv EXCEPT ![p].pc = "dispatch", ![p].reminderData = reminderData,
                               ![p].currentSheetIndex = Len(sheets), ![p].ret = Array(reminderData)]
        /\ last' = [op |-> "complete", key |-> k, outcome |-> toString(inv[p].currentSheetIndex)]
        /\ cycle' = [cycle EXCEPT ![k].done = @ + 1]
  /\ UNCHANGED <<nextTriggerId, sheets, today, docs, outbox, runs, call>>

\* ------------------------------------------------------- rendering and mail
\* ReminderManager.extractDocIdFromUrl: /\/d\/(.*?)\// needs a "/" after the
\* id; 0 stands for null.
extractDocIdFromUrl(url) == IF url.tail THEN url.doc ELSE 0

\* DocumentApp.openById throws for null and for an id that names no document.
OpenByIdThrows(docId) == docId \notin DocIds

EnglishDateText(todayT) == "day " \o ToString(todayT \div TicksPerDay)

Paragraph(kind, text, link) == [kind |-> kind, text |-> text, link |-> link, headers |-> <<>>, rows |-> <<>>]
Table(headers, rows) == [kind |-> "table", text |-> "", link |-> "", headers |-> headers, rows |-> rows]

\* presetInDoc: body.clear(), doc.setName(title), the intro line for 'today'.
presetInDoc(title, period) ==
  [name |-> title,
   body |-> IF period = "today"
            THEN <<Paragraph("intro", "*Once the item is completed, input \"C\"!", "")>>
            ELSE <<>>]

\* createEachTable: the header row and one row per task.
Headers(period) == IF period = "today" THEN <<"Item", "Summary", "Date", "Staff", "Complete">>
                   ELSE <<"Item", "Summary", "Date", "Staff">>
createEachTable(taskData, headers) ==
  Table(headers,
        [j \in 1..Len(taskData) |->
           IF Len(headers) > 4
           THEN <<taskData[j].item, taskData[j].note, taskData[j].date, taskData[j].staff, EmptyCell>>
           ELSE <<taskData[j].item, taskData[j].note, taskData[j].date, taskData[j].staff>>])

\* createReminderTablesInDoc: a heading and a table appended per SheetReminder.
RECURSIVE createReminderTablesInDoc(_, _, _, _)
createReminderTablesInDoc(doc, reminderData, j, period) ==
  IF j > Len(reminderData) THEN doc
  ELSE createReminderTablesInDoc(
         [doc EXCEPT !.body = doc.body \o
            <<Paragraph("heading", reminderData[j].sheetName, reminderData[j].sheetURL),
              createEachTable(reminderData[j].taskData, Headers(period))>>],
         reminderData, j + 1, period)

\* filterRemindersForStaff
filterRemindersForStaff_KeepEmpty(reminderData, staffName) ==
  [j \in 1..Len(reminderData) |->
     SheetReminder(reminderData[j].sheetName, reminderData[j].sheetURL,
                   SelectSeq(reminderData[j].taskData, LAMBDA task : task.staff = Str(staffName)))]
filterRemindersForStaff(reminderData, staffName) ==
  LET IsStaff(task) == task.staff = Str(staffName)
      HasStaff(sr) == \E j \in 1..Len(sr.taskData) : IsStaff(sr.taskData[j])
      kept == SelectSeq(reminderData, HasStaff)
  IN [j \in 1..Len(kept) |->
        SheetReminder(kept[j].sheetName, kept[j].sheetURL, SelectSeq(kept[j].taskData, IsStaff))]

\* sendEmail: one message of GmailApp.sendEmail.
Mail(to, subject, successOrFailure, displayDocUrl) ==
  [to |-> to, subject |-> subject, successOrFailure |-> successOrFailure, displayDocUrl |-> displayDocUrl]
ErrorMail ==
  Mail(<<"active-user">>, "Error on Sharing General Reminders (Today or Next Week)", "error", NullUrl)

\* What a dispatch leaves behind.
Effect(p, d, mails, outcome) == [props |-> p, docs |-> d, outbox |-> mails, outcome |-> outcome]

\* Lines 753-801: target 'general'.
GeneralTitle(period, todayT) ==
  (IF period = "today" THEN "Today's General Reminder on " ELSE "Next Week's General Reminder on ")
    \o EnglishDateText(todayT)
GeneralBranch_NoClear(k, reminderData, p, d, todayT) ==
  IF /\ HasProperty(p, SCRIPT_PROPERTY_KEY_GENERAL_REMINDER_EMAILS)
     /\ HasProperty(p, SCRIPT_PROPERTY_KEY_GENERAL_REM_DOC_URL)
  THEN LET emails == p[SCRIPT_PROPERTY_KEY_GENERAL_REMINDER_EMAILS].value
           urls == p[SCRIPT_PROPERTY_KEY_GENERAL_REM_DOC_URL].value
           url == IF k.period = "today" THEN urls.generalTodayReminderDocUrl
                  ELSE urls.generalWeekReminderDocUrl
           title == GeneralTitle(k.period, todayT)
           docId == extractDocIdFromUrl(url)
       IN IF url # NullUrl
          THEN IF OpenByIdThrows(docId)
               THEN Effect(p, d, <<>>, "threw")
               ELSE Effect(p,
                           [d EXCEPT ![docId] =
                              createReminderTablesInDoc(
                                [name |-> title,
                                 body |-> d[docId].body \o presetInDoc(title, k.period).body],
                                reminderData, 1, k.period)],
                           <<Mail(emails, title, "success", url)>>,
                           "general-success")
          ELSE Effect(p, d, <<Mail(emails, title, "failure", NullUrl)>>, "general-failure")
  ELSE Effect(p, d, <<ErrorMail>>, "general-unset")
GeneralBranch(k, reminderData, p, d, todayT) ==
  IF /\ HasProperty(p, SCRIPT_PROPERTY_KEY_GENERAL_REMINDER_EMAILS)
     /\ HasProperty(p, SCRIPT_PROPERTY_KEY_GENERAL_REM_DOC_URL)
  THEN LET emails == p[SCRIPT_PROPERTY_KEY_GENERAL_REMINDER_EMAILS].value
           urls == p[SCRIPT_PROPERTY_KEY_GENERAL_REM_DOC_URL].value
           url == IF k.period = "today" THEN urls.generalTodayReminderDocUrl
                  ELSE urls.generalWeekReminderDocUrl
           title == GeneralTitle(k.period, todayT)
           docId == extractDocIdFromUrl(url)
       IN IF url # NullUrl
          THEN IF OpenByIdThrows(docId)
               THEN Effect(p, d, <<>>, "threw")
               ELSE Effect(p,
                           [d EXCEPT ![docId] =
                              createReminderTablesInDoc(presetInDoc(title, k.period), reminderData, 1, k.period)],
                           <<Mail(emails, title, "success", url)>>,
                           "general-success")
          ELSE Effect(p, d, <<Mail(emails, title, "failure", NullUrl)>>, "general-failure")
  ELSE Effect(p, d, <<ErrorMail>>, "general-unset")

\* Lines 805-847: the callback of staffBasedReminderData.forEach for one staff
\* object; st is [docs, outbox, threw].
StaffTitle(period, staffName, todayT) ==
  (IF period = "today" THEN "Today's Reminder for " ELSE "Next Week's Reminder for ")
    \o staffName \o " on " \o EnglishDateText(todayT)
StaffCallback(st, staffObject, reminderData, period, todayT) ==
  LET staffName == staffObject.name
      url == IF period = "today" THEN staffObject.todayReminderUrl ELSE staffObject.nextWeekReminderUrl
      title == StaffTitle(period, staffName, todayT)
      docId == extractDocIdFromUrl(url)
  IN IF url # NullUrl
     THEN IF OpenByIdThrows(docId)
          THEN [st EXCEPT !.threw = TRUE]
          ELSE [st EXCEPT
                  !.docs[docId] = createReminderTablesInDoc(presetInDoc(title, period),
                                    filterRemindersForStaff(reminderData, staffName), 1, period),
                  !.outbox = Append(st.outbox, Mail(<<staffObject.email>>, title, "success", url))]
     ELSE [st EXCEPT !.outbox = Append(st.outbox, Mail(<<staffObject.email>>, title, "failure", NullUrl))]

RECURSIVE StaffLoop_KeepsGoing(_, _, _, _, _, _)
StaffLoop_KeepsGoing(st, staffData, j, reminderData, period, todayT) ==
  IF j > Len(staffData) THEN st
  ELSE StaffLoop_KeepsGoing(StaffCallback(st, staffData[j], reminderData, period, todayT),
                            staffData, j + 1, reminderData, period, todayT)
RECURSIVE StaffLoop(_, _, _, _, _, _)
StaffLoop(st, staffData, j, reminderData, period, todayT) ==
  IF j > Len(staffData) \/ st.threw THEN st
  ELSE StaffLoop(StaffCallback(st, staffData[j], reminderData, period, todayT),
                 staffData, j + 1, reminderData, period, todayT)

\* Lines 803-857: target 'staffBased' and the deletion of the gate after it.
StaffBranch_ClearOnThrow(k, reminderData, p, d, todayT) ==
  IF HasProperty(p, SCRIPT_PROPERTY_KEY_STAFFBASED_REM_DATA)
  THEN LET st == StaffLoop([docs |-> d, outbox |-> <<>>, threw |-> FALSE],
                           p[SCRIPT_PROPERTY_KEY_STAFFBASED_REM_DATA].value, 1,
                           reminderData, k.period, todayT)
       IN Effect(deleteProperty(p, getCompletionStatusKey(k)), st.docs, st.outbox,
                 IF st.threw THEN "threw" ELSE "staff-done")
  ELSE Effect(p, d, <<ErrorMail>>, "staff-unset")
StaffBranch(k, reminderData, p, d, todayT) ==
  IF HasProperty(p, SCRIPT_PROPERTY_KEY_STAFFBASED_REM_DATA)
  THEN LET st == StaffLoop([docs |-> d, outbox |-> <<>>, threw |-> FALSE],
                           p[SCRIPT_PROPERTY_KEY_STAFFBASED_REM_DATA].value, 1,
                           reminderData, k.period, todayT)
       IN IF st.threw
          THEN Effect(p, st.docs, st.outbox, "threw")
          ELSE Effect(deleteProperty(p, getCompletionStatusKey(k)), st.docs, st.outbox, "staff-done")
  ELSE Effect(p, d, <<ErrorMail>>, "staff-unset")

\* The completion status dispatch reads; "null" when the property is absent.
completionStatus(p, k) ==
  IF HasProperty(p, getCompletionStatusKey(k)) THEN p[getCompletionStatusKey(k)] ELSE "null"

\* shareRemindersByDoc after getReminderData returned (lines 713-861).
DispatchEffect_NoCompletedCheck(k, ret, p, d, todayT) ==
  IF completionStatus(p, k) = "NOT YET" THEN Effect(p, d, <<>>, "not-yet")
  ELSE IF ~ret.isArray \/ Len(ret.value) = 0
       THEN Effect(p, d, <<>>, "empty")
       ELSE IF k.target = "general"
            THEN GeneralBranch(k, ret.value, p, d, todayT)
            ELSE StaffBranch(k, ret.value, p, d, todayT)
DispatchEffect_NoEmptyCheck(k, ret, p, d, todayT) ==
  IF completionStatus(p, k) = "NOT YET" THEN Effect(p, d, <<>>, "not-yet")
  ELSE IF completionStatus(p, k) = "COMPLETED"
       THEN IF ~ret.isArray
            THEN Effect(p, d, <<>>, "empty")
            ELSE IF k.target = "general"
                 THEN GeneralBranch(k, ret.value, p, d, todayT)
                 ELSE StaffBranch(k, ret.value, p, d, todayT)
       ELSE Effect(p, d, <<>>, "absent")
DispatchEffect(k, ret, p, d, todayT) ==
  IF completionStatus(p, k) = "NOT YET" THEN Effect(p, d, <<>>, "not-yet")
  ELSE IF completionStatus(p, k) = "COMPLETED"
       THEN IF ~ret.isArray \/ Len(ret.value) = 0
            THEN Effect(p, d, <<>>, "empty")
            ELSE IF k.target = "general"
                 THEN GeneralBranch(k, ret.value, p, d, todayT)
                 ELSE StaffBranch(k, ret.value, p, d, todayT)
       ELSE Effect(p, d, <<>>, "absent")

Dispatch(p) ==
  /\ inv[p].pc = "dispatch"
  /\ LET e == DispatchEffect(inv[p].key, inv[p].ret, props, docs, today)
     IN /\ props' = e.props
        /\ docs' = e.docs
        /\ outbox' = e.outbox
        /\ last' = [op |-> "dispatch", key |-> inv[p].key, outcome |-> e.outcome]
        /\ cycle' = IF e.outcome \in {"not-yet", "absent"} THEN cycle
                     ELSE [cycle EXCEPT ![inv[p].key].consumed = @ + 1]
  /\ inv' = [inv EXCEPT ![p] = IdleInv]
  /\ UNCHANGED <<triggers, nextTriggerId, sheets, today, runs, call>>

\* ------------------------------------------------------------------- reset
\* resetScriptPropertiesAndTriggers (setting.js): every property and every
\* trigger is deleted.
ResetEffect_PropertiesOnly ==
  /\ props' = NoProperties
  /\ last' = [op |-> "reset", key |-> NoKey, outcome |-> ""]
  /\ cycle' = [k \in Keys |-> NoCycle]
  /\ UNCHANGED <<triggers, nextTriggerId, sheets, today, inv, docs, outbox, runs, call>>
ResetEffect ==
  /\ props' = NoProperties
  /\ triggers' = {}
  /\ last' = [op |-> "reset", key |-> NoKey, outcome |-> ""]
  /\ cycle' = [k \in Keys |-> NoCycle]
  /\ UNCHANGED <<nextTriggerId, sheets, today, inv, docs, outbox, runs, call>>

Reset ==
  /\ \A q \in Procs : inv[q].pc = "idle"
  /\ DOMAIN props # {} \/ triggers # {}
  /\ ResetEffect

\* ------------------------------------------------------- the specification
Next ==
  \/ \E p \in Procs, fn \in EntryPoints : RunEntryPoint(p, fn)
  \/ \E p \in Procs, t \in triggers : FireTrigger(p, t)
  \/ \E t \in triggers : FireUndefined(t)
  \/ \E p \in Procs, i \in 0..MaxSheets : ScanTimeout(p, i)
  \/ \E p \in Procs : ScanComplete(p)
  \/ \E p \in Procs : Dispatch(p)
  \/ Reset

Spec == Init /\ [][Next]_vars

\* The reset may also run while an execution is in flight (the menu item is
\* clicked while a triggered execution is between two of its steps).
ResetDuring ==
  /\ \E q \in Procs : inv[q].pc # "idle"
  /\ ResetEffect

NextRace == Next \/ ResetDuring
RaceSpec == Init /\ [][NextRace]_vars

\* setReminderTrigger and createTrigger (setting.js): a recurring trigger
\* is added to the project; it has no side record. Three of the five handler
\* names are drawn: the name of an entry point, a name the project does not
\* define, and the handler of the index sheet. The setting dialog shows which of them are set, so each is set at
\* most once, and at most MaxRecurring of them are set. A run started by a
\* recurring trigger is a RunEntryPoint step.
MaxRecurring == 1
RecurringHandlers == {"runGeneralReminderToday", "runStaffReminderNextWeek",
                      "updateCompletionStatusToSheet"}
RecurringId(fn) ==
  CASE fn = "runGeneralReminderToday" -> 0 - 1
    [] fn = "runStaffReminderNextWeek" -> 0 - 2
    [] fn = "updateCompletionStatusToSheet" -> 0 - 3
    [] fn = "runGeneralReminderNextWeek" -> 0 - 4
    [] fn = "runStaffReminderToday" -> 0 - 5
SetReminderTrigger(fn) ==
  /\ \A q \in Procs : inv[q].pc = "idle"
  /\ \A t \in triggers : t.recurring => t.handler # fn
  /\ Cardinality({t \in triggers : t.recurring}) < MaxRecurring
  /\ triggers' = triggers \cup {[id |-> RecurringId(fn), handler |-> fn, fired |-> FALSE,
                                  recurring |-> TRUE]}
  /\ last' = [op |-> "set-trigger", key |-> NoKey, outcome |-> fn]
  /\ UNCHANGED <<props, nextTriggerId, sheets, today, inv, docs, outbox, runs, cycle, call>>

TriggerNext == Next \/ \E fn \in RecurringHandlers : SetReminderTrigger(fn)
TriggerSpec == Init /\ [][TriggerNext]_vars

\* The five handler names setReminderTrigger creates a recurring trigger for
\* (setting.js lines 446-456), on one configuration and one spreadsheet.
SetReminderHandlers == {"runGeneralReminderToday", "runGeneralReminderNextWeek",
                        "runStaffReminderToday", "runStaffReminderNextWeek",
                        "updateCompletionStatusToSheet"}
\* The functions the project defines that a time-based trigger can name: the
\* four entry points and updateCompletionStatusToSheet (manage-taskSheets.js
\* line 415).
DefinedHandlers == EntryPoints \cup {"updateCompletionStatusToSheet"}
HandlersInit == Init /\ props = ConfigA /\ sheets = SubSeq(Spreadsheet2, 1, MaxSheets)
HandlersNext == Next \/ \E fn \in SetReminderHandlers : SetReminderTrigger(fn)
HandlersSpec == HandlersInit /\ [][HandlersNext]_vars

\* An execution for one key starts while one execution for another key is
\* between two of its steps (a triggered execution and a run from the menu,
\* or two triggers that are due together).
BeginBeside(p, k) ==
  /\ inv[p].pc = "idle" /\ LowestIdle(p)
  /\ Cardinality({q \in Procs : inv[q].pc # "idle"}) = 1
  /\ \A q \in Procs : inv[q].pc # "idle" => inv[q].key # k
  /\ BeginEffect(p, k)
RunBeside(p, fn) ==
  /\ runs < MaxRuns
  /\ runs' = runs + 1
  /\ BeginBeside(p, EntryPointKey(fn))
  /\ UNCHANGED triggers
FireBeside(p, t) ==
  /\ t \in triggers /\ ~t.fired /\ ~t.recurring
  /\ t.handler \in EntryPoints
  /\ triggers' = (triggers \ {t}) \cup {[t EXCEPT !.fired = TRUE]}
  /\ BeginBeside(p, EntryPointKey(t.handler))
  /\ UNCHANGED runs

OverlapNext ==
  \/ Next
  \/ \E p \in Procs, fn \in EntryPoints : RunBeside(p, fn)
  \/ \E p \in Procs, t \in triggers : FireBeside(p, t)
\* The overlapping executions are explored for the settings ConfigA and the
\* first MaxSheets sheets of the first spreadsheet.
OverlapInit == Init /\ props = ConfigA /\ sheets = SubSeq(Spreadsheet1, 1, MaxSheets)
OverlapSpec == OverlapInit /\ [][OverlapNext]_vars

\* Spreadsheets without a due task (no sheet, index sheets only, rows that are
\* checked, undated or not yet due) and one with a due task behind such a
\* sheet.
NothingDueLists == {<<>>, <<shNone>>, <<shIndex, shNone, shEmpty>>, <<shEmpty, shDoneIndex>>,
                    <<shNone, shA>>}
NothingDueInit ==
  /\ props \in Configs
  /\ triggers = {}
  /\ nextTriggerId = 1
  /\ sheets \in NothingDueLists
  /\ today \in TodayChoices
  /\ inv = [p \in Procs |-> IdleInv]
  /\ docs = [d \in DocIds |-> BlankDoc]
  /\ outbox = <<>>
  /\ runs = 0
  /\ last = [op |-> "init", key |-> NoKey, outcome |-> ""]
  /\ cycle = [k \in Keys |-> NoCycle]
  /\ call = NoCall
NothingDueSpec == NothingDueInit /\ [][Next]_vars

\* Settings in which the document of the second of three staff members cannot
\* be opened (its stored URL has no "/" behind the id), and neither can the
\* general document of period 'today'.
ConfigC ==
  (SCRIPT_PROPERTY_KEY_GENERAL_REMINDER_EMAILS :> JSONText(<<"g1@demo">>))
  @@ (SCRIPT_PROPERTY_KEY_GENERAL_REM_DOC_URL :>
        JSONText([generalTodayReminderDocUrl |-> Url(1, FALSE), generalWeekReminderDocUrl |-> Url(1, TRUE)]))
  @@ (SCRIPT_PROPERTY_KEY_STAFFBASED_REM_DATA :>
        JSONText(<<StaffObject("A", "a@demo", Url(2, TRUE), NullUrl),
                   StaffObject("B", "b@demo", Url(3, FALSE), Url(3, FALSE)),
                   StaffObject("C", "c@demo", Url(1, TRUE), Url(1, TRUE))>>))
ThrowInit ==
  /\ props = ConfigC
  /\ triggers = {}
  /\ nextTriggerId = 1
  /\ sheets \in SheetLists
  /\ today \in TodayChoices
  /\ inv = [p \in Procs |-> IdleInv]
  /\ docs = [d \in DocIds |-> BlankDoc]
  /\ outbox = <<>>
  /\ runs = 0
  /\ last = [op |-> "init", key |-> NoKey, outcome |-> ""]
  /\ cycle = [k \in Keys |-> NoCycle]
  /\ call = NoCall
ThrowSpec == ThrowInit /\ [][Next]_vars

\* An execution is killed by the platform between two of the writes of
\* getReminderData. The timeout branch writes, in this order, the stored
\* list (line 617), the stored cursor (618), the trigger and its side record
\* (619); the completion writes the deletion of the stored list (696), of the
\* stored cursor (697), of the triggers of the key and their side records
\* (698) and the gate (699). n is the number of these writes that were made.
PropsOfTimeoutWrites(p, k, reminderData, i, n) ==
  IF n = 1 THEN setProperty(p, storedDataKey(k), Stringify(reminderData))
  ELSE setProperty(setProperty(p, storedDataKey(k), Stringify(reminderData)),
                   currentSheetIndexKey(k), toString(i))
KilledInTimeout(p, i, n) ==
  /\ inv[p].pc = "scan"
  /\ i >= inv[p].currentSheetIndex /\ i < Len(sheets)
  /\ LET k == inv[p].key
         reminderData == ScanFrom(inv[p].reminderData, sheets, inv[p].currentSheetIndex, i,
                                  k.period, today)
     IN /\ props' = PropsOfTimeoutWrites(props, k, reminderData, i, n)
        /\ last' = [op |-> "killed", key |-> k, outcome |-> "timeout-" \o ToString(n)]
  /\ inv' = [inv EXCEPT ![p] = IdleInv]
  /\ UNCHANGED <<triggers, nextTriggerId, sheets, today, docs, outbox, runs, cycle, call>>

PropsOfCompleteWrites_GateFirst(trigs, p, k, n) ==
  IF n = 1 THEN setProperty(p, getCompletionStatusKey(k), "COMPLETED")
  ELSE IF n = 2 THEN setProperty(deleteProperty(p, storedDataKey(k)),
                                 getCompletionStatusKey(k), "COMPLETED")
       ELSE PropsAfterComplete(trigs, p, k)
PropsOfCompleteWrites(trigs, p, k, n) ==
  IF n = 1 THEN deleteProperty(p, storedDataKey(k))
  ELSE IF n = 2 THEN deleteProperty(deleteProperty(p, storedDataKey(k)), currentSheetIndexKey(k))
       ELSE PropsAfterDelete(trigs,
                             deleteProperty(deleteProperty(p, storedDataKey(k)),
                                            currentSheetIndexKey(k)),
                             k)
KilledInComplete(p, n) ==
  /\ inv[p].pc = "scan"
  /\ LET k == inv[p].key
     IN /\ props' = PropsOfCompleteWrites(triggers, props, k, n)
        /\ triggers' = IF n = 3 THEN TriggersAfterDelete(triggers, props, k) ELSE triggers
        /\ last' = [op |-> "killed", key |-> k, outcome |-> "complete-" \o ToString(n)]
  /\ inv' = [inv EXCEPT ![p] = IdleInv]
  /\ UNCHANGED <<nextTriggerId, sheets, today, docs, outbox, runs, cycle, call>>

CrashNext ==
  \/ Next
  \/ \E p \in Procs, i \in 0..MaxSheets, n \in 1..2 : KilledInTimeout(p, i, n)
  \/ \E p \in Procs, n \in 1..3 : KilledInComplete(p, n)
\* The kills are explored for the settings ConfigA and the first MaxSheets
\* sheets of the second spreadsheet.
CrashInit == Init /\ props = ConfigA /\ sheets = SubSeq(Spreadsheet2, 1, MaxSheets)
CrashSpec == CrashInit /\ [][CrashNext]_vars

\* Two executions of one key overlap (a duplicate trigger, or a run from the
\* menu while the continuation of the key runs) and their writes to the
\* script properties interleave: the timeout branch of each is taken in two
\* steps, the write of the stored list (line 617) and then the write of the
\* stored cursor and the creation of the trigger (lines 618-619).
BeginSameKey(p, k) ==
  /\ inv[p].pc = "idle" /\ LowestIdle(p)
  /\ Cardinality({q \in Procs : inv[q].pc # "idle"}) = 1
  /\ \E q \in Procs : inv[q].pc \in {"scan", "saving"} /\ inv[q].key = k
  /\ BeginEffect(p, k)
RunSameKey(p, fn) ==
  /\ runs < MaxRuns
  /\ runs' = runs + 1
  /\ BeginSameKey(p, EntryPointKey(fn))
  /\ UNCHANGED triggers
FireSameKey(p, t) ==
  /\ t \in triggers /\ ~t.fired /\ ~t.recurring
  /\ t.handler \in EntryPoints
  /\ triggers' = (triggers \ {t}) \cup {[t EXCEPT !.fired = TRUE]}
  /\ BeginSameKey(p, EntryPointKey(t.handler))
  /\ UNCHANGED runs
SaveList(p, i) ==
  /\ inv[p].pc = "scan"
  /\ \E q \in Procs : q # p /\ inv[q].pc # "idle"
  /\ i >= inv[p].currentSheetIndex /\ i < Len(sheets)
  /\ LET k == inv[p].key
         reminderData == ScanFrom(inv[p].reminderData, sheets, inv[p].currentSheetIndex, i,
                                  k.period, today)
     IN /\ props' = PropsOfTimeoutWrites(props, k, reminderData, i, 1)
        /\ inv' = [inv EXCEPT ![p].pc = "saving", ![p].reminderData = reminderData,
                               ![p].currentSheetIndex = i]
        /\ last' = [op |-> "save-list", key |-> k, outcome |-> toString(i)]
  /\ UNCHANGED <<triggers, nextTriggerId, sheets, today, docs, outbox, runs, cycle, call>>
SaveCursor(p) ==
  /\ inv[p].pc = "saving"
  /\ nextTriggerId <= MaxTriggers
  /\ LET k == inv[p].key
         i == inv[p].currentSheetIndex
     IN /\ props' = PropsAfterCreate(setProperty(props, currentSheetIndexKey(k), toString(i)),
                                     nextTriggerId, k)
        /\ triggers' = TriggersAfterCreate(triggers, nextTriggerId, k)
        /\ nextTriggerId' = nextTriggerId + 1
        /\ inv' = [inv EXCEPT ![p].pc = "dispatch", ![p].ret = Undefined]
        /\ last' = [op |-> "timeout", key |-> k, outcome |-> toString(i)]
  /\ UNCHANGED <<sheets, today, docs, outbox, runs, cycle, call>>

DuplicateNext ==
  \/ Next
  \/ \E p \in Procs, fn \in EntryPoints : RunSameKey(p, fn)
  \/ \E p \in Procs, t \in triggers : FireSameKey(p, t)
  \/ \E p \in Procs, i \in 0..MaxSheets : SaveList(p, i)
  \/ \E p \in Procs : SaveCursor(p)
\* The duplicates are explored for the settings ConfigA and the first
\* MaxSheets sheets of the second spreadsheet.
DuplicateInit == Init /\ props = ConfigA /\ sheets = SubSeq(Spreadsheet2, 1, MaxSheets)
DuplicateSpec == DuplicateInit /\ [][DuplicateNext]_vars

\* Spreadsheets that hold both index sheets, at the first, a middle and the
\* last position and with several row contents, for the settings ConfigA.
shIndexRows == Sheet(ONGOING_TASKS_INDEX_SHEET_NAME, 2, <<rowDone, rowDue, rowNextWeek>>)
shDoneIndexRows == Sheet(COMPLETED_TASKS_INDEX_SHEET_NAME, 6, <<rowNextWeek, rowNoDate, rowDue>>)
shIndexBlank == Sheet(ONGOING_TASKS_INDEX_SHEET_NAME, 2, <<>>)
ReservedLists == {<<shIndex, shA, shDoneIndex>>,
                  <<shA, shDoneIndexRows, shIndexRows, shB>>,
                  <<shDoneIndex, shIndexBlank, shB>>}
ReservedInit ==
  /\ props = ConfigA
  /\ triggers = {}
  /\ nextTriggerId = 1
  /\ sheets \in ReservedLists
  /\ today \in TodayChoices
  /\ inv = [p \in Procs |-> IdleInv]
  /\ docs = [d \in DocIds |-> BlankDoc]
  /\ outbox = <<>>
  /\ runs = 0
  /\ last = [op |-> "init", key |-> NoKey, outcome |-> ""]
  /\ cycle = [k \in Keys |-> NoCycle]
  /\ call = NoCall
ReservedSpec == ReservedInit /\ [][Next]_vars

\* Between two executions the stored payload of a key is damaged outside the
\* program (the value is edited or cut in the script properties of the
\* project): JSON.parse of it throws (lines 591-597).
MalformedText == [wellFormed |-> FALSE, value |-> <<>>]
Corrupt(k) ==
  /\ \A q \in Procs : inv[q].pc = "idle"
  /\ HasProperty(props, storedDataKey(k)) /\ props[storedDataKey(k)].wellFormed
  /\ props' = setProperty(props, storedDataKey(k), MalformedText)
  /\ last' = [op |-> "corrupt", key |-> k, outcome |-> ""]
  /\ UNCHANGED <<triggers, nextTriggerId, sheets, today, inv, docs, outbox, runs, cycle, call>>

CorruptNext == Next \/ \E k \in Keys : Corrupt(k)
CorruptSpec == Init /\ [][CorruptNext]_vars

\* The scheduler fires every scheduled trigger, every started execution runs
\* to its end, and every execution reads at least one sheet before the budget
\* is exceeded; no reset happens.
ScanTimeoutAfterProgress(p, i) ==
  /\ i > inv[p].currentSheetIndex
  /\ ScanTimeout(p, i)
FireSome == \E p \in Procs, t \in triggers : FireTrigger(p, t)
FireSomeUndefined == \E t \in triggers : FireUndefined(t)
ScanSome == \E p \in Procs : ScanComplete(p) \/ \E i \in 0..MaxSheets : ScanTimeoutAfterProgress(p, i)
DispatchSome == \E p \in Procs : Dispatch(p)

LiveNext ==
  \/ \E p \in Procs, fn \in EntryPoints : RunEntryPoint(p, fn)
  \/ \E p \in Procs, t \in triggers : FireTrigger(p, t)
  \/ \E t \in triggers : FireUndefined(t)
  \/ \E p \in Procs, i \in 0..MaxSheets : ScanTimeoutAfterProgress(p, i)
  \/ \E p \in Procs : ScanComplete(p)
  \/ DispatchSome

LiveSpec ==
  /\ Init
  /\ [][LiveNext]_vars
  /\ WF_vars(FireSome)
  /\ WF_vars(FireSomeUndefined)
  /\ WF_vars(ScanSome)
  /\ WF_vars(DispatchSome)

\* ------------------------------------------- single calls of one method
\* Nothing of the pipeline is stored or running.
Quiet ==
  /\ props = NoProperties
  /\ triggers = {}
  /\ nextTriggerId = 1
  /\ sheets = <<>>
  /\ today = Midnight(FridayDay)
  /\ inv = [p \in Procs |-> IdleInv]
  /\ docs = [d \in DocIds |-> BlankDoc]
  /\ outbox = <<>>
  /\ runs = 0
  /\ last = [op |-> "init", key |-> NoKey, outcome |-> ""]
  /\ cycle = [k \in Keys |-> NoCycle]
pipeline == <<props, triggers, nextTriggerId, sheets, today, inv, docs, outbox, runs, last, cycle>>

\* filterRemindersForStaff called once with any list of up to MaxReports
\* reports of up to MaxTasks tasks each and any staff name.
MaxReports == 2
MaxTasks == 2
StaffNames == {"A", "B", "C"}
FilterTasks ==
  {Reminder(Str(i), EmptyCell, formatEnglishDate(DateV(Midnight(FridayDay))), st) :
     i \in {"t1", "t2"}, st \in {Str("A"), Str("B"), EmptyCell}}
FilterTaskLists == UNION {[1..m -> FilterTasks] : m \in 0..MaxTasks}
FilterInput(f) ==
  [j \in DOMAIN f |-> SheetReminder("S" \o ToString(j), "#gid=" \o ToString(j), f[j])]

FilterInit ==
  /\ Quiet
  /\ \E m \in 0..MaxReports :
       \E f \in [1..m -> FilterTaskLists], n \in StaffNames :
         call = [fn |-> "filterRemindersForStaff", done |-> FALSE,
                 reminderData |-> FilterInput(f), staffName |-> n, result |-> <<>>]
ApplyFilter ==
  /\ call.fn = "filterRemindersForStaff" /\ ~call.done
  /\ call' = [call EXCEPT !.done = TRUE,
                          !.result = filterRemindersForStaff(call.reminderData, call.staffName)]
  /\ UNCHANGED pipeline
FilterNext == ApplyFilter
FilterSpec == FilterInit /\ [][FilterNext]_vars

\* The body of the sheet loop called once for a sheet of up to MaxRows data
\* rows, on any day of one week (Sunday to Saturday) at any time of day, for
\* either period. A due date cell is empty or holds a date with a time of
\* day, from DaysBefore days before the day of the call to DaysAhead days
\* after it; every row has an item.
MaxRows == 1
DaysBefore == 1
DaysAhead == 8
\* Lines 601-602: today = new Date(); today.setHours(0, 0, 0, 0)
setHoursZero(now) == (now \div TicksPerDay) * TicksPerDay
ScanNows == Midnight(FridayDay - 5) .. (Midnight(FridayDay + 2) - 1)
DueDates(now) ==
  {EmptyCell} \cup {DateV(t) : t \in (setHoursZero(now) - DaysBefore * TicksPerDay)
                                      .. (setHoursZero(now) + (DaysAhead + 1) * TicksPerDay - 1)}
RowCells(now) == [date : DueDates(now), checkbox : {Bool(TRUE), Bool(FALSE)}]
ScanRows(f) ==
  [i \in DOMAIN f |-> [item |-> Str("r" \o ToString(i)), note |-> EmptyCell, date |-> f[i].date,
                       staff |-> Str("A"), checkbox |-> f[i].checkbox]]

ScanInit ==
  /\ Quiet
  /\ \E now \in ScanNows, period \in Periods, m \in 1..MaxRows :
       \E f \in [1..m -> RowCells(now)] :
         call = [fn |-> "getReminderData", done |-> FALSE, now |-> now, period |-> period,
                 rows |-> ScanRows(f), result |-> <<>>]
ApplyScan ==
  /\ call.fn = "getReminderData" /\ ~call.done
  /\ call' = [call EXCEPT !.done = TRUE,
                          !.result = ScanSheet(<<>>, Sheet("S", 1, call.rows), call.period,
                                               setHoursZero(call.now))]
  /\ UNCHANGED pipeline
ScanNext == ApplyScan
ScanSpec == ScanInit /\ [][ScanNext]_vars

\* The scan of one sheet at one moment for period 'today' and for period
\* 'week' (two ReminderManagers over the same rows with the same today).
HorizonsInit ==
  /\ Quiet
  /\ \E now \in ScanNows, m \in 1..MaxRows :
       \E f \in [1..m -> RowCells(now)] :
         call = [fn |-> "bothPeriods", done |-> FALSE, now |-> now, rows |-> ScanRows(f),
                 resultToday |-> <<>>, resultWeek |-> <<>>]
ApplyBothPeriods ==
  /\ call.fn = "bothPeriods" /\ ~call.done
  /\ call' = [call EXCEPT !.done = TRUE,
                          !.resultToday = ScanSheet(<<>>, Sheet("S", 1, call.rows), "today",
                                                    setHoursZero(call.now)),
                          !.resultWeek = ScanSheet(<<>>, Sheet("S", 1, call.rows), "week",
                                                   setHoursZero(call.now))]
  /\ UNCHANGED pipeline
HorizonsNext == ApplyBothPeriods
HorizonsSpec == HorizonsInit /\ [][HorizonsNext]_vars

\* ------------------------------------------------ setting.js, the settings
\* extractDocIdFromUrl_ (line 419): the id behind "/d/", whether or not a "/"
\* follows it. checkIfGoogleDocExists_: the id names a Google Doc.
extractDocIdFromUrl_(url) == url.doc
checkIfGoogleDocExists_(fileId) == fileId \in DocIds
\* validateGoogleDocUrl_ (lines 371-394); v is [invalid, set], the length of
\* invalidUrls and the content of allUrlsSet; ret is the value returned.
validateGoogleDocUrl_(url, v) ==
  IF url = NullUrl THEN [ret |-> NullUrl, invalid |-> v.invalid, set |-> v.set]
  ELSE IF checkIfGoogleDocExists_(extractDocIdFromUrl_(url))
       THEN IF url \in v.set
            THEN [ret |-> NullUrl, invalid |-> v.invalid + 1, set |-> v.set]
            ELSE [ret |-> url, invalid |-> v.invalid, set |-> v.set \cup {url}]
       ELSE [ret |-> NullUrl, invalid |-> v.invalid + 1, set |-> v.set]
\* validateStaffReminderData (lines 397-416); w is [invalid, set, out].
RECURSIVE validateStaffReminderData(_, _, _)
validateStaffReminderData(staffData, j, w) ==
  IF j > Len(staffData) THEN w
  ELSE LET t == validateGoogleDocUrl_(staffData[j].todayReminderUrl, w)
           n == validateGoogleDocUrl_(staffData[j].nextWeekReminderUrl, t)
       IN validateStaffReminderData(staffData, j + 1,
            [invalid |-> n.invalid, set |-> n.set,
             out |-> Append(w.out, StaffObject(staffData[j].name, staffData[j].email, t.ret, n.ret))])
CountUrls(urls) == Cardinality({j \in 1..Len(urls) : urls[j] # NullUrl})
RECURSIVE StaffUrls(_, _)
StaffUrls(staffData, j) ==
  IF j > Len(staffData) THEN <<>>
  ELSE <<staffData[j].todayReminderUrl, staffData[j].nextWeekReminderUrl>> \o StaffUrls(staffData, j + 1)
\* storeReminderInfo (lines 318-368); staffIsNull is passedData.staffBasedReminderData === null.
PropsAfterStore(p, passedData) ==
  LET gt == validateGoogleDocUrl_(passedData.generalTodayReminderDocUrl, [invalid |-> 0, set |-> {}])
      gw == validateGoogleDocUrl_(passedData.generalWeekReminderDocUrl, gt)
      generalUrls == [generalTodayReminderDocUrl |-> gt.ret, generalWeekReminderDocUrl |-> gw.ret]
      generalUrlsCount == CountUrls(<<gt.ret, gw.ret>>)
      st == IF passedData.staffIsNull
            THEN [invalid |-> gw.invalid, set |-> gw.set, out |-> <<>>]
            ELSE validateStaffReminderData(passedData.staffBasedReminderData, 1,
                                           [invalid |-> gw.invalid, set |-> gw.set, out |-> <<>>])
      staffUrlsCount == CountUrls(StaffUrls(st.out, 1))
  IN IF st.invalid = 0 /\ Cardinality(st.set) = generalUrlsCount + staffUrlsCount
     THEN LET q == setProperty(p, SCRIPT_PROPERTY_KEY_GENERAL_REM_DOC_URL, JSONText(generalUrls))
          IN IF passedData.staffIsNull THEN q
             ELSE setProperty(q, SCRIPT_PROPERTY_KEY_STAFFBASED_REM_DATA, JSONText(st.out))
     ELSE p

\* One call of storeReminderInfo from the dialog, with any of the URLs below
\* in each field and up to MaxStaffSubmitted staff members, on a project
\* with no settings or with the settings ConfigA.
UrlInputs == {NullUrl, Url(1, TRUE), Url(1, FALSE), Url(2, TRUE), Url(3 + 1, TRUE)}
SubmittedStaff(f) ==
  [j \in DOMAIN f |-> StaffObject(IF j = 1 THEN "A" ELSE "B" \o ToString(j),
                                  "s" \o ToString(j) \o "@demo", f[j][1], f[j][2])]
StoreInit ==
  /\ triggers = {}
  /\ nextTriggerId = 1
  /\ sheets = <<>>
  /\ today = Midnight(FridayDay)
  /\ inv = [p \in Procs |-> IdleInv]
  /\ docs = [d \in DocIds |-> BlankDoc]
  /\ outbox = <<>>
  /\ runs = 0
  /\ last = [op |-> "init", key |-> NoKey, outcome |-> ""]
  /\ cycle = [k \in Keys |-> NoCycle]
  /\ props \in {NoProperties, ConfigA}
  /\ \E gt \in UrlInputs, gw \in UrlInputs, isNull \in BOOLEAN, m \in 0..MaxStaffSubmitted :
       \E f \in [1..m -> UrlInputs \X UrlInputs] :
         /\ isNull => m = 0
         /\ call = [fn |-> "storeReminderInfo", done |-> FALSE,
                    passedData |-> [generalTodayReminderDocUrl |-> gt,
                                    generalWeekReminderDocUrl |-> gw,
                                    staffIsNull |-> isNull,
                                    staffBasedReminderData |-> SubmittedStaff(f)],
                    before |-> props]
ApplyStore ==
  /\ call.fn = "storeReminderInfo" /\ ~call.done
  /\ props' = PropsAfterStore(props, call.passedData)
  /\ call' = [call EXCEPT !.done = TRUE]
  /\ last' = [op |-> "store", key |-> NoKey,
              outcome |-> IF props' = props THEN "failure" ELSE "success"]
  /\ UNCHANGED <<triggers, nextTriggerId, sheets, today, inv, docs, outbox, runs, cycle>>
StoreNext == ApplyStore
StoreSpec == StoreInit /\ [][StoreNext]_vars

\* One computation of validDates (lines 601-602 and 642-653) for each moment
\* of WeeksOfNow weeks.
DateNows == 0 .. (Midnight(7 * WeeksOfNow) - 1)
DatesInit ==
  /\ Quiet
  /\ \E now \in DateNows :
       call = [fn |-> "validDates", done |-> FALSE, now |-> now, result |-> <<>>]
ApplyValidDates ==
  /\ call.fn = "validDates" /\ ~call.done
  /\ call' = [call EXCEPT !.done = TRUE, !.result = validDates(setHoursZero(call.now))]
  /\ UNCHANGED pipeline
DatesNext == ApplyValidDates
DatesSpec == DatesInit /\ [][DatesNext]_vars

\* ================================================================= claims
NOT_YET == "NOT YET"
COMPLETED == "COMPLETED"
ABSENT == "null"
Gate(k) == completionStatus(props, k)

\* The reports of the sheets with index from .. to - 1, each sheet read alone.
RECURSIVE ReportsOfSheets(_, _, _)
ReportsOfSheets(from, to, period) ==
  IF from >= to \/ from >= Len(sheets) THEN <<>>
  ELSE ScanSheet(<<>>, sheets[from + 1], period, today) \o ReportsOfSheets(from + 1, to, period)

\* One uninterrupted scan of the whole source list.
UninterruptedScan(period) == ReportsOfSheets(0, Len(sheets), period)

NoDuplicateSource(reminderData) ==
  \A a, b \in 1..Len(reminderData) : a # b => reminderData[a].sheetName # reminderData[b].sheetName

TriggerIdKeys == {ToString(n) : n \in 1..(MaxTriggers + 1)}
\* The side records in p that name key k.
SideRecordsOf(p, k) ==
  {x \in DOMAIN p \cap TriggerIdKeys : p[x].value.target = k.target /\ p[x].value.period = k.period}

\* C1: a scan that was suspended and resumed until it completed returns the
\* same sequence of SheetReminders as one uninterrupted scan of the same sheets.
C1_ResumeIsTransparent ==
  \A p \in Procs :
    (inv[p].pc = "dispatch" /\ inv[p].ret.isArray)
      => inv[p].ret.value = UninterruptedScan(inv[p].key.period)

\* The resumed result and the uninterrupted one have the same JSON text: they
\* differ only where a Date became its ISO string in the checkpoint.
C1_SameUpToJSON ==
  \A p \in Procs :
    (inv[p].pc = "dispatch" /\ inv[p].ret.isArray)
      => ToJSON(inv[p].ret.value) = ToJSON(UninterruptedScan(inv[p].key.period))

\* C2: the accumulated result, in memory and in the persisted checkpoint,
\* never contains the same sheet twice.
C2_NoSourceTwice ==
  /\ \A p \in Procs : NoDuplicateSource(inv[p].reminderData) /\ NoDuplicateSource(inv[p].ret.value)
  /\ \A k \in Keys : HasProperty(props, storedDataKey(k))
                       => NoDuplicateSource(props[storedDataKey(k)].value)

\* A resumed scan has completed with at least two reports.
C2_Witness ==
  /\ last.op = "complete" /\ last.outcome # "0"
  /\ \E p \in Procs : inv[p].ret.isArray /\ Len(inv[p].ret.value) >= 2

\* C3: a persisted checkpoint has both of its properties, its cursor is at most
\* the number of sheets, and its payload is the JSON text of exactly the
\* reports of the sheets below the cursor, each of them read completely.
C3_CheckpointIsPrefix ==
  \A k \in Keys :
    /\ HasProperty(props, storedDataKey(k)) <=> HasProperty(props, currentSheetIndexKey(k))
    /\ HasProperty(props, storedDataKey(k)) =>
         /\ parseInt(props[currentSheetIndexKey(k)]) <= Len(sheets)
         /\ props[storedDataKey(k)] =
              Stringify(ReportsOfSheets(0, parseInt(props[currentSheetIndexKey(k)]), k.period))

\* A checkpoint with a cursor beyond the first sheet and a report in it.
C3_Witness ==
  \E k \in Keys :
    /\ HasProperty(props, storedDataKey(k))
    /\ parseInt(props[currentSheetIndexKey(k)]) >= 2
    /\ Len(props[storedDataKey(k)].value) >= 1

\* C4: a dispatch that proceeded on a COMPLETED gate through one of the
\* branches (general success, general without document, staff loop, settings
\* missing) leaves the gate of its key absent when it returns.
C4_GateClearedOnEveryBranch ==
  (/\ last.op = "dispatch"
   /\ last.outcome \in {"general-success", "general-failure", "general-unset", "staff-done", "staff-unset"})
    => Gate(last.key) = ABSENT

\* C5: under the steps of scan and dispatch the gate of a key changes only
\* from absent or COMPLETED to NOT YET, from NOT YET to COMPLETED and from
\* COMPLETED to absent.
GateChangeAllowed(g, h) ==
  \/ g = h
  \/ g \in {ABSENT, COMPLETED} /\ h = NOT_YET
  \/ g = NOT_YET /\ h = COMPLETED
  \/ g = COMPLETED /\ h = ABSENT
C5_GateTransitions ==
  [][(inv' # inv) => \A k \in Keys : GateChangeAllowed(Gate(k), Gate(k)')]_vars

\* A dispatch has just taken the gate of its key from COMPLETED to absent.
C5_Witness ==
  last.op = "dispatch" /\ last.outcome = "staff-done" /\ Gate(last.key) = ABSENT

\* C6: a dispatch that reads NOT YET or no gate at all changes no property
\* (gate, checkpoint, side records), no trigger and no document, sends no
\* mail and raises no error.
C6_DispatchNoOp ==
  [][\A p \in Procs :
       (/\ inv[p].pc = "dispatch" /\ inv'[p].pc = "idle"
        /\ Gate(inv[p].key) \in {NOT_YET, ABSENT})
         => /\ UNCHANGED <<props, triggers, docs>>
            /\ outbox' = <<>>
            /\ last'.outcome \in {"not-yet", "absent"}]_vars

\* A dispatch has returned after it read no gate, with a completed result in hand.
C6_Witness == last.op = "dispatch" /\ last.outcome = "absent"

\* C7: with every continuation fired and progress in every execution, a gate
\* that is NOT YET eventually becomes COMPLETED, for each of the four keys.
C7_PendingLeadsToDone ==
  \A k \in Keys : (Gate(k) = NOT_YET) ~> (Gate(k) = COMPLETED)

\* The same for the three keys whose continuation names a defined entry point.
C7_PendingLeadsToDoneDefined ==
  \A k \in Keys : triggerFunctionName(k) \in EntryPoints
                    => ((Gate(k) = NOT_YET) ~> (Gate(k) = COMPLETED))

\* C8: every continuation trigger names a defined entry point that runs the
\* scan of the key in its side record.
C8_ContinuationNamesEntryPoint ==
  \A t \in triggers :
    HasProperty(props, getUniqueId(t))
      => /\ t.handler \in EntryPoints
         /\ EntryPointKey(t.handler).target = props[getUniqueId(t)].value.target
         /\ EntryPointKey(t.handler).period = props[getUniqueId(t)].value.period

\* The side record of every continuation carries the key whose handler name
\* createOneTimeTrigger computed.
C8_SideRecordCarriesKey ==
  \A t \in triggers :
    /\ HasProperty(props, getUniqueId(t))
    /\ \E k \in Keys : /\ t.handler = triggerFunctionName(k)
                       /\ props[getUniqueId(t)].value.target = k.target
                       /\ props[getUniqueId(t)].value.period = k.period

\* C9: at most one continuation trigger of a key has not fired yet.
C9_AtMostOneContinuation ==
  \A k \in Keys : Cardinality({t \in OwnedTriggers(triggers, props, k) : ~t.fired}) <= 1

\* C10: when a scan reads every remaining sheet within the budget, then on
\* return the checkpoint of its key is absent, no trigger and no side record
\* of the key remains, the gate is COMPLETED and the value returned is what
\* was loaded followed by the reports of the sheets from the cursor on.
C10_CompletionCleansUp ==
  [][\A p \in Procs :
       (inv[p].pc = "scan" /\ inv'[p].pc = "dispatch" /\ inv'[p].ret.isArray)
         => LET k == inv[p].key
            IN /\ ~HasProperty(props', storedDataKey(k))
               /\ ~HasProperty(props', currentSheetIndexKey(k))
               /\ SideRecordsOf(props', k) = {}
               /\ \A t \in triggers' : t.handler # triggerFunctionName(k)
               /\ Gate(k)' = COMPLETED
               /\ inv'[p].ret.value = inv'[p].reminderData
               /\ inv'[p].ret.value =
                    inv[p].reminderData
                      \o ReportsOfSheets(inv[p].currentSheetIndex, Len(sheets), k.period)]_vars

\* A resumed scan has completed while a continuation of another key is left.
C10_Witness ==
  /\ last.op = "complete" /\ last.outcome # "0"
  /\ triggers # {}

\* C11: a key whose checkpoint (stored reports or stored cursor) is persisted
\* has its gate 'NOT YET', in every state and so at every boundary between
\* two executions: a checkpoint never coexists with a COMPLETED or absent gate.
C11_CheckpointImpliesPending ==
  \A k \in Keys : HasCheckpoint(props, k) => Gate(k) = NOT_YET

\* An execution has ended suspended: no execution is in flight, the checkpoint
\* of its key is stored and dispatch found the gate 'NOT YET'.
C11_Witness ==
  /\ \A q \in Procs : inv[q].pc = "idle"
  /\ last.op = "dispatch" /\ last.outcome = "not-yet"
  /\ HasProperty(props, storedDataKey(last.key))
  /\ HasProperty(props, currentSheetIndexKey(last.key))

\* C19: every report of the accumulated result, in the memory of an
\* execution, in the stored checkpoint and in the value a scan returned, has
\* at least one task: a sheet with no qualifying row leaves no report.
NoEmptyReport(reminderData) ==
  \A j \in 1..Len(reminderData) : Len(reminderData[j].taskData) >= 1
C19_NoEmptyReport ==
  /\ \A p \in Procs : /\ NoEmptyReport(inv[p].reminderData)
                       /\ NoEmptyReport(inv[p].ret.value)
  /\ \A k \in Keys : HasProperty(props, storedDataKey(k))
                        => NoEmptyReport(props[storedDataKey(k)].value)

\* A sheet without a qualifying row and a sheet with one have been read, and
\* the result that was returned or stored holds a report.
C19_Witness ==
  /\ \E j \in 1..Len(sheets) : sheets[j] = shNone
  /\ \/ \E p \in Procs : /\ inv[p].ret.isArray /\ Len(inv[p].ret.value) >= 1
                          /\ Len(inv[p].ret.value) < Len(sheets)
     \/ \E p \in Procs, k \in Keys :
           /\ inv[p].pc = "dispatch" /\ inv[p].key = k /\ ~inv[p].ret.isArray
           /\ HasProperty(props, storedDataKey(k))
           /\ \E j \in 1..inv[p].currentSheetIndex : sheets[j] = shNone
           /\ Len(props[storedDataKey(k)].value) >= 1

\* ------------------------------------------------ dispatch (C13, C14, C15)
\* The last step was a dispatch that found the gate COMPLETED and a result
\* with at least one report (lines 720-725 passed).
Proceeded ==
  /\ last.op = "dispatch"
  /\ last.outcome \notin {"not-yet", "absent", "empty"}
GeneralSet ==
  /\ HasProperty(props, SCRIPT_PROPERTY_KEY_GENERAL_REMINDER_EMAILS)
  /\ HasProperty(props, SCRIPT_PROPERTY_KEY_GENERAL_REM_DOC_URL)
StaffSet == HasProperty(props, SCRIPT_PROPERTY_KEY_STAFFBASED_REM_DATA)
GeneralEmails == props[SCRIPT_PROPERTY_KEY_GENERAL_REMINDER_EMAILS].value
GeneralUrl(period) ==
  IF period = "today"
  THEN props[SCRIPT_PROPERTY_KEY_GENERAL_REM_DOC_URL].value.generalTodayReminderDocUrl
  ELSE props[SCRIPT_PROPERTY_KEY_GENERAL_REM_DOC_URL].value.generalWeekReminderDocUrl
StaffData == props[SCRIPT_PROPERTY_KEY_STAFFBASED_REM_DATA].value
StaffUrl(staffObject, period) ==
  IF period = "today" THEN staffObject.todayReminderUrl ELSE staffObject.nextWeekReminderUrl
\* The success and failure messages of the last dispatch addressed to `to`.
NotificationsTo(to) ==
  {j \in 1..Len(outbox) : outbox[j].to = to /\ outbox[j].successOrFailure \in {"success", "failure"}}

\* C13: a dispatch that proceeds on a COMPLETED gate sends exactly one
\* message, a success or a failure notification, to each configured
\* recipient: one to the group of the general target, one to each staff
\* member of the staffBased target.
C13_OneNotificationPerRecipient ==
  Proceeded =>
    IF last.key.target = "general"
    THEN GeneralSet => Cardinality(NotificationsTo(GeneralEmails)) = 1
    ELSE StaffSet => \A j \in 1..Len(StaffData) :
                       Cardinality(NotificationsTo(<<StaffData[j].email>>)) = 1

\* C14: after a staffBased dispatch that proceeded, every staff member
\* without a document for the period has one failure notification, and every
\* staff member with one has the report in that document and one success
\* notification carrying its link, whatever the order of the list.
C14_StaffOutcomesIndependent ==
  (Proceeded /\ last.key.target = "staffBased" /\ StaffSet) =>
    \A j \in 1..Len(StaffData) :
      LET url == StaffUrl(StaffData[j], last.key.period)
          mails == NotificationsTo(<<StaffData[j].email>>)
      IN /\ Cardinality(mails) = 1
         /\ \A m \in mails :
              IF url = NullUrl
              THEN outbox[m].successOrFailure = "failure"
              ELSE /\ outbox[m].successOrFailure = "success"
                   /\ outbox[m].displayDocUrl = url
                   /\ docs[url.doc].name = StaffTitle(last.key.period, StaffData[j].name, today)

\* C15: a general dispatch that proceeds with no document configured for its
\* period changes no document and sends one failure notification to the
\* group; with a document configured it writes the report into that
\* document and sends one success notification carrying the link.
C15_GeneralOutcome ==
  [][\A p \in Procs :
       (/\ inv[p].pc = "dispatch" /\ inv'[p].pc = "idle"
        /\ inv[p].key.target = "general"
        /\ Proceeded' /\ GeneralSet)
       => LET url == GeneralUrl(inv[p].key.period)
              title == GeneralTitle(inv[p].key.period, today)
          IN IF url = NullUrl
             THEN /\ docs' = docs
                  /\ outbox' = <<Mail(GeneralEmails, title, "failure", NullUrl)>>
             ELSE /\ docs'[url.doc].name = title
                  /\ \A d \in DocIds \ {url.doc} : docs'[d] = docs[d]
                  /\ outbox' = <<Mail(GeneralEmails, title, "success", url)>>]_vars

\* Every stored document URL has a "/" after the document id, so that
\* ReminderManager.extractDocIdFromUrl finds the id.
IdsExtract ==
  /\ GeneralSet => \A period \in Periods :
                     GeneralUrl(period) # NullUrl => extractDocIdFromUrl(GeneralUrl(period)) # 0
  /\ StaffSet => \A j \in 1..Len(StaffData), period \in Periods :
                   StaffUrl(StaffData[j], period) # NullUrl
                     => extractDocIdFromUrl(StaffUrl(StaffData[j], period)) # 0
\* With such URLs the statements of C13 and C14 hold.
C13_HoldsWhenIdsExtract == IdsExtract => C13_OneNotificationPerRecipient
C14_HoldsWhenIdsExtract == IdsExtract => C14_StaffOutcomesIndependent

\* C12: a scan cycle of a key starts with a scan that finds no checkpoint of
\* the key and ends with the completion of the scan or with the reset. In a
\* cycle the gate is set to COMPLETED at most once and dispatch takes the
\* COMPLETED branch at most once, after the gate was set; and when the next
\* cycle of the key starts, the cycle before it (unless the reset ended it)
\* has set the gate to COMPLETED once and dispatch has read it once.
CycleStarts(p, k) ==
  /\ inv[p].pc = "idle" /\ inv'[p].pc = "scan" /\ inv'[p].key = k
  /\ ~HasCheckpoint(props, k)
C12_SignalledOncePerCycle ==
  /\ [](\A k \in Keys : cycle[k].done <= 1 /\ cycle[k].consumed <= cycle[k].done)
  /\ [][\A p \in Procs, k \in Keys :
          (CycleStarts(p, k) /\ cycle[k].open)
            => (cycle[k].done = 1 /\ cycle[k].consumed = 1)]_vars

\* The next cycle of a key has started after dispatch shared the result of
\* the cycle before it, and a scan was suspended on the way.
C12_Witness ==
  /\ last.op = "begin"
  /\ cycle[last.key] = NewCycle
  /\ nextTriggerId > 1
  /\ \/ /\ last.key.target = "general"
        /\ outbox # <<>> /\ outbox[1].subject = GeneralTitle(last.key.period, today)
     \/ /\ last.key.target = "staffBased"
        /\ outbox # <<>> /\ outbox[1].subject \in
             {StaffTitle(last.key.period, n, today) : n \in {"A", "B"}}

\* C20: a scan that finds a malformed payload raises no error, starts with
\* an empty list and with the cursor at sheet 0, and when it completes it
\* returns what an uninterrupted scan returns.
C20_MalformedIsNoCheckpoint ==
  \A p \in Procs :
    inv[p].parseError =>
      /\ inv[p].pc = "scan" => (inv[p].reminderData = <<>> /\ inv[p].currentSheetIndex = 0)
      /\ inv[p].ret.isArray => inv[p].ret.value = UninterruptedScan(inv[p].key.period)

\* The part that holds: the list starts empty and the scan goes on from the
\* stored cursor, so it returns the reports of the sheets from the cursor on.
C20_MalformedKeepsCursor ==
  [][\A p \in Procs, k \in Keys :
       (inv[p].pc = "idle" /\ inv'[p].pc = "scan" /\ inv'[p].key = k /\ ParseError(props, k))
         => /\ inv'[p].reminderData = <<>>
            /\ inv'[p].currentSheetIndex = LoadedSheetIndex(props, k)]_vars

\* C16: for every list of reports and every staff name,
\* filterRemindersForStaff returns, in the order of the list, exactly the
\* reports that have a task of that staff member, each with only the tasks of
\* that staff member in their order; no returned report is empty and no
\* returned task belongs to somebody else.
RECURSIVE TasksOf(_, _)
TasksOf(taskData, name) ==
  IF Len(taskData) = 0 THEN <<>>
  ELSE (IF Head(taskData).staff = Str(name) THEN <<Head(taskData)>> ELSE <<>>)
         \o TasksOf(Tail(taskData), name)
RECURSIVE ViewOf(_, _)
ViewOf(reminderData, name) ==
  IF Len(reminderData) = 0 THEN <<>>
  ELSE (IF Len(TasksOf(Head(reminderData).taskData, name)) > 0
        THEN <<SheetReminder(Head(reminderData).sheetName, Head(reminderData).sheetURL,
                             TasksOf(Head(reminderData).taskData, name))>>
        ELSE <<>>)
         \o ViewOf(Tail(reminderData), name)
C16_FilterIsView ==
  (call.fn = "filterRemindersForStaff" /\ call.done) =>
    /\ call.result = ViewOf(call.reminderData, call.staffName)
    /\ \A j \in 1..Len(call.result) :
         /\ Len(call.result[j].taskData) >= 1
         /\ \A i \in 1..Len(call.result[j].taskData) :
              call.result[j].taskData[i].staff = Str(call.staffName)

\* The call dropped a report and cut another one down to the tasks of the name.
C16_Witness ==
  /\ call.fn = "filterRemindersForStaff" /\ call.done
  /\ Len(call.result) >= 1
  /\ Len(call.result) < Len(call.reminderData)
  /\ \E j \in 1..Len(call.result) :
       \A i \in 1..Len(call.reminderData) : call.result[j] # call.reminderData[i]

\* ------------------------------------------------ the horizons (C17, C18)
CalendarDay(t) == t \div TicksPerDay
Scanned == call.fn = "getReminderData" /\ call.done
InOutput(item) ==
  \E j \in 1..Len(call.result) :
    \E i \in 1..Len(call.result[j].taskData) : call.result[j].taskData[i].item = item
Unchecked(row) == row.checkbox = Bool(FALSE)
\* The first five days after day d that are not a Saturday or a Sunday.
BusinessDay(d) == d % 7 \notin {0, 6}
NextFiveBusinessDays(d) ==
  {e \in (d + 1)..(d + 7 + 2) :
     BusinessDay(e) /\ Cardinality({x \in (d + 1)..e : BusinessDay(x)}) <= 5}
AllAtMidnight ==
  \A i \in 1..Len(call.rows) :
    call.rows[i].date # EmptyCell => call.rows[i].date.n % TicksPerDay = 0

\* C17: the output of the scan for period 'today' contains the item of a
\* data row if and only if the row has a due date, is not checked, and the
\* calendar day of its due date is the day of the scan or an earlier day.
C17_TodayByCalendarDate ==
  (Scanned /\ call.period = "today") =>
    \A i \in 1..Len(call.rows) :
      InOutput(call.rows[i].item)
        <=> /\ call.rows[i].date # EmptyCell
            /\ Unchecked(call.rows[i])
            /\ CalendarDay(call.rows[i].date.n) <= CalendarDay(call.now)

\* It holds when every due date has the time of day 00:00.
C17_HoldsAtMidnight == AllAtMidnight => C17_TodayByCalendarDate

\* C18: the output of the scan for period 'week' contains the item of a data
\* row if and only if the row has a due date, is not checked, and its due
\* date is the day of the scan, an earlier day, or one of the five business
\* days after it; an unchecked row due on a weekend day in between or after
\* the fifth business day is not in the output.
C18_WeekWindow ==
  (Scanned /\ call.period = "week") =>
    \A i \in 1..Len(call.rows) :
      InOutput(call.rows[i].item)
        <=> /\ call.rows[i].date # EmptyCell
            /\ Unchecked(call.rows[i])
            /\ \/ CalendarDay(call.rows[i].date.n) <= CalendarDay(call.now)
               \/ CalendarDay(call.rows[i].date.n) \in NextFiveBusinessDays(CalendarDay(call.now))

\* It holds when every due date has the time of day 00:00.
C18_HoldsAtMidnight == AllAtMidnight => C18_WeekWindow

\* C21: deleteOneTimeTriggers of a key removes exactly the triggers whose
\* side record names the target and period of the key, each with its side
\* record; every other trigger (of another key, recurring, without a side
\* record) and every other side record is left as it was.
NamesKey(p, t, k) ==
  /\ ToString(t.id) \in DOMAIN p
  /\ p[ToString(t.id)].value.target = k.target
  /\ p[ToString(t.id)].value.period = k.period
C21_DeleteOnlyOwnTriggers ==
  [][\A p \in Procs :
       (inv[p].pc = "scan" /\ inv'[p].pc = "dispatch" /\ inv'[p].ret.isArray)
         => LET k == inv[p].key
            IN \A t \in triggers :
                 IF NamesKey(props, t, k)
                 THEN t \notin triggers' /\ ToString(t.id) \notin DOMAIN props'
                 ELSE /\ t \in triggers'
                      /\ (ToString(t.id) \in DOMAIN props
                            => /\ ToString(t.id) \in DOMAIN props'
                               /\ props'[ToString(t.id)] = props[ToString(t.id)])]_vars

\* A resumed scan has completed and removed its continuation while a
\* recurring trigger and the continuation of another key are left.
C21_Witness ==
  /\ last.op = "complete" /\ last.outcome # "0"
  /\ \E t \in triggers : t.recurring
  /\ \E t \in triggers : ~t.recurring /\ HasProperty(props, getUniqueId(t))

\* C22: whatever the interleaving of the executions of two different keys,
\* a step of an execution for one key leaves the gate, the stored reports,
\* the stored cursor, the continuation triggers and the side records of
\* every other key as they were, and what a scan loads at its start is
\* determined by the properties of its own key alone.
KeyProperties(k) == {storedDataKey(k), currentSheetIndexKey(k), getCompletionStatusKey(k)}
PropsOfKey(p, k) == [x \in DOMAIN p \cap KeyProperties(k) |-> p[x]]
TriggersOfKey(trigs, p, k) == {t \in trigs : NamesKey(p, t, k)}
SideRecordsOfKey(trigs, p, k) == {p[ToString(t.id)] : t \in TriggersOfKey(trigs, p, k)}
Tables(doc) == SelectSeq(doc.body, LAMBDA e : e.kind = "table")
Headings(doc) == SelectSeq(doc.body, LAMBDA e : e.kind = "heading")
ExpectedRow(task, period) ==
  <<task.item, task.note, task.date, task.staff>> \o (IF period = "today" THEN <<EmptyCell>> ELSE <<>>)
RECURSIVE ExpectedRows(_, _)
ExpectedRows(taskData, period) ==
  IF Len(taskData) = 0 THEN <<>>
  ELSE <<ExpectedRow(Head(taskData), period)>> \o ExpectedRows(Tail(taskData), period)
RECURSIVE ExpectedSections(_, _)
ExpectedSections(reminderData, period) ==
  IF Len(reminderData) = 0 THEN <<>>
  ELSE <<[kind |-> "heading", text |-> Head(reminderData).sheetName,
          link |-> Head(reminderData).sheetURL, headers |-> <<>>, rows |-> <<>>],
         [kind |-> "table", text |-> "", link |-> "", headers |-> Headers(period),
          rows |-> ExpectedRows(Head(reminderData).taskData, period)]>>
         \o ExpectedSections(Tail(reminderData), period)
Rendered(doc, reminderData, period) ==
  /\ SubSeq(doc.body, Len(doc.body) - 2 * Len(reminderData) + 1, Len(doc.body))
       = ExpectedSections(reminderData, period)
  /\ Len(Tables(doc)) = Len(reminderData)
  /\ Len(Headings(doc)) = Len(reminderData)
  /\ Len(doc.body) = 2 * Len(reminderData) + (IF period = "today" THEN 1 ELSE 0)
  /\ \A j \in 1..Len(reminderData) :
       /\ Headings(doc)[j].text = reminderData[j].sheetName
       /\ Len(Tables(doc)[j].rows) = Len(reminderData[j].taskData)
C23_RenderReplaces ==
  [][\A p \in Procs :
       (inv[p].pc = "dispatch" /\ inv'[p].pc = "idle")
         => LET k == inv[p].key
                result == inv[p].ret.value
            IN /\ last'.outcome = "general-success"
                    => Rendered(docs'[GeneralUrl(k.period).doc], result, k.period)
               /\ last'.outcome = "staff-done"
                    => \A j \in 1..Len(StaffData) :
                         StaffUrl(StaffData[j], k.period) # NullUrl
                           => Rendered(docs'[StaffUrl(StaffData[j], k.period).doc],
                                       ViewOf(result, StaffData[j].name), k.period)]_vars

\* The second of two runs of runGeneralReminderToday has rendered its result
\* into the document the first one rendered into: two runs were started, no
\* scan was suspended, no reset took place (the settings are stored), and no
\* other key has run (its gate is absent and its document is blank).
C23_Witness ==
  /\ last.op = "dispatch" /\ last.outcome = "general-success"
  /\ last.key = [target |-> "general", period |-> "today"]
  /\ runs = 2 /\ nextTriggerId = 1
  /\ GeneralSet
  /\ \A k \in Keys \ {last.key} : Gate(k) = ABSENT
  /\ \A d \in DocIds \ {GeneralUrl("today").doc} : docs[d] = BlankDoc

\* C24: a scan started for a key whose gate is COMPLETED and that has no
\* checkpoint sets the gate to 'NOT YET' and starts at sheet 0 with an empty
\* list; and a scan that started so and reads every sheet within the budget
\* returns what a fresh uninterrupted scan returns and leaves the gate
\* COMPLETED again.
C24_RescanAfterDone ==
  /\ [][\A p \in Procs, k \in Keys :
          (/\ inv[p].pc = "idle" /\ inv'[p].pc = "scan" /\ inv'[p].key = k
           /\ Gate(k) = COMPLETED /\ ~HasCheckpoint(props, k))
            => /\ inv'[p].currentSheetIndex = 0
               /\ inv'[p].reminderData = <<>>
               /\ Gate(k)' = NOT_YET]_vars
  /\ [][\A p \in Procs :
          (/\ inv[p].pc = "scan" /\ inv'[p].pc = "dispatch" /\ inv'[p].ret.isArray
           /\ inv[p].currentSheetIndex = 0 /\ inv[p].reminderData = <<>>)
            => /\ inv'[p].ret.value = UninterruptedScan(inv[p].key.period)
               /\ Gate(inv[p].key)' = COMPLETED]_vars

\* The second run of a general key has completed its scan from sheet 0: the
\* mail of the dispatch before it is still in the outbox, so the gate of the
\* key was COMPLETED and its checkpoint gone when the run started.
C24_Witness ==
  /\ last.op = "complete" /\ last.outcome = "0"
  /\ last.key.target = "general"
  /\ GeneralSet
  /\ outbox # <<>> /\ outbox[1].subject = GeneralTitle(last.key.period, today)

\* C25: the gate of a key goes from 'NOT YET' to COMPLETED only in the last
\* step of a scan of that key that read every sheet from its start cursor to
\* the end of the list and returned the list, creating no trigger; the step
\* of a scan that saves a checkpoint and returns undefined leaves the gate as
\* it was.
C25_DoneOnlyAfterFullScan ==
  /\ [][\A k \in Keys :
          (Gate(k) = NOT_YET /\ Gate(k)' = COMPLETED)
            => \E p \in Procs :
                 /\ inv[p].pc = "scan" /\ inv[p].key = k
                 /\ inv'[p].pc = "dispatch" /\ inv'[p].ret.isArray
                 /\ inv'[p].currentSheetIndex = Len(sheets)
                 /\ inv'[p].ret.value
                      = ScanFrom(inv[p].reminderData, sheets, inv[p].currentSheetIndex,
                                 Len(sheets), k.period, today)
                 /\ triggers' \subseteq triggers]_vars
  /\ [][\A p \in Procs :
          (inv[p].pc = "scan" /\ inv'[p].pc = "dispatch" /\ ~inv'[p].ret.isArray)
            => /\ Gate(inv[p].key)' = NOT_YET
               /\ inv'[p].currentSheetIndex < Len(sheets)]_vars

\* A resumed scan has read the sheets from its saved cursor to the end and
\* set the gate to COMPLETED.
C25_Witness ==
  /\ last.op = "complete" /\ last.outcome # "0"
  /\ Gate(last.key) = COMPLETED
  /\ \E p \in Procs : inv[p].pc = "dispatch" /\ inv[p].key = last.key /\ inv[p].ret.isArray

\* C26: apart from the reset, the gate of a key goes from COMPLETED to absent
\* only in the step that ends a dispatch of that key, the key is a staffBased
\* one, and at that moment every configured staff member has been sent the
\* notification of this dispatch and, when a document URL is configured for
\* the period, that document carries the title of this dispatch.
C26_ClearedOnlyAfterAllBranches ==
  [][\A k \in Keys :
       (Gate(k) = COMPLETED /\ Gate(k)' = ABSENT /\ last'.op # "reset")
         => /\ k.target = "staffBased"
            /\ \E p \in Procs : inv[p].pc = "dispatch" /\ inv[p].key = k /\ inv'[p].pc = "idle"
            /\ StaffSet
            /\ \A j \in 1..Len(StaffData) :
                 LET url == StaffUrl(StaffData[j], k.period)
                     title == StaffTitle(k.period, StaffData[j].name, today)
                 IN /\ \E m \in 1..Len(outbox') :
                         /\ outbox'[m].to = <<StaffData[j].email>>
                         /\ outbox'[m].subject = title
                         /\ outbox'[m].successOrFailure
                              = IF url = NullUrl THEN "failure" ELSE "success"
                    /\ url # NullUrl => docs'[url.doc].name = title]_vars

\* A staffBased dispatch has cleared its gate after notifying at least two
\* staff members.
C26_Witness ==
  /\ last.op = "dispatch" /\ last.outcome = "staff-done"
  /\ last.key.target = "staffBased"
  /\ Gate(last.key) = ABSENT
  /\ StaffSet /\ Len(StaffData) >= 2 /\ Len(outbox) = Len(StaffData)

\* C27: no report of a scan carries the name of the ongoing-index or of the
\* completed-index sheet: not in the list an execution holds or returns, and
\* not in the list a checkpoint stores, whatever rows the two sheets have and
\* wherever the scan was suspended and resumed.
ReservedNames == {ONGOING_TASKS_INDEX_SHEET_NAME, COMPLETED_TASKS_INDEX_SHEET_NAME}
NoReservedIn(reminderData) ==
  \A j \in 1..Len(reminderData) : reminderData[j].sheetName \notin ReservedNames
C27_ReservedNeverScanned ==
  /\ \A p \in Procs : NoReservedIn(inv[p].reminderData) /\ NoReservedIn(inv[p].ret.value)
  /\ \A k \in Keys :
       (HasProperty(props, storedDataKey(k)) /\ props[storedDataKey(k)].wellFormed)
         => NoReservedIn(props[storedDataKey(k)].value)

\* A scan resumed exactly at the position of an index sheet that has a due
\* row has completed and returned reports.
C27_Witness ==
  /\ last.op = "complete"
  /\ \E i \in 1..(Len(sheets) - 1) :
       /\ last.outcome = toString(i)
       /\ sheets[i + 1].name \in ReservedNames
       /\ \E r \in 1..Len(sheets[i + 1].rows) : sheets[i + 1].rows[r] = rowDue
  /\ \E p \in Procs : inv[p].ret.isArray /\ Len(inv[p].ret.value) >= 2

ContinuationPending(k) ==
  \E t \in triggers : ~t.fired /\ ~t.recurring /\ t.handler = triggerFunctionName(k)
\* The kill points between the saving of the checkpoint and the creation of
\* the trigger, and between the clearing of the checkpoint and the gate write.
KillGaps == {"timeout-2", "complete-2", "complete-3"}
KilledInGap(p) ==
  inv[p].pc = "scan" /\ inv'[p].pc = "idle" /\ last'.op = "killed" /\ last'.outcome \in KillGaps
\* The gate of the key is 'NOT YET', no execution of the key is in flight and
\* no continuation of it is pending.
Stuck(k) ==
  /\ Gate(k) = NOT_YET
  /\ ~ContinuationPending(k)
  /\ \A p \in Procs : inv[p].pc # "idle" => inv[p].key # k
\* Only an entry point run from outside or the reset ends the stuck state.
StuckUntilExternal ==
  \A k \in Keys : Stuck(k) => (Stuck(k)' \/ runs' # runs \/ last'.op = "reset")

\* C28 as stated: an execution killed in one of the two gaps leaves its key
\* with the gate 'NOT YET' and no pending continuation, and the key stays so
\* until an entry point is run from outside or the reset is made.
C28_KilledLeavesNoContinuation ==
  /\ [][\A p \in Procs, k \in Keys :
          (KilledInGap(p) /\ inv[p].key = k)
            => /\ Gate(k)' = NOT_YET
               /\ ~ContinuationPending(k)']_vars
  /\ [][StuckUntilExternal]_vars

\* C28, amended: an execution killed in one of the two gaps leaves its key
\* with the gate 'NOT YET' and creates no trigger, so that no continuation is
\* pending unless one created by an earlier execution of the key was still
\* unfired when this execution was killed; and a key with the gate 'NOT YET',
\* nothing in flight and no pending continuation stays so until an entry
\* point is run from outside or the reset is made.
C28_KilledStaysPending ==
  /\ [][\A p \in Procs, k \in Keys :
          (KilledInGap(p) /\ inv[p].key = k)
            => /\ Gate(k)' = NOT_YET
               /\ triggers' \subseteq triggers
               /\ ContinuationPending(k)' => ContinuationPending(k)]_vars
  /\ [][StuckUntilExternal]_vars

\* An execution was killed after it had cleared its checkpoint and before it
\* wrote COMPLETED: the key has the gate 'NOT YET', no checkpoint and no
\* pending continuation.
C28_Witness ==
  /\ last.op = "killed" /\ last.outcome \in {"complete-2", "complete-3"}
  /\ Stuck(last.key)
  /\ ~HasCheckpoint(props, last.key)

\* C30: whichever two consecutive writes of getReminderData an execution was
\* killed between, a scan of the key that completes returns the reports of
\* exactly the sheets an uninterrupted scan reports, each once and in the
\* order of the sheets.
SheetNames(reminderData) == [j \in 1..Len(reminderData) |-> reminderData[j].sheetName]
C30_KilledLeavesConsistentPair ==
  [][\A p \in Procs :
       (inv[p].pc = "scan" /\ inv'[p].pc = "dispatch" /\ inv'[p].ret.isArray)
         => SheetNames(inv'[p].ret.value) = SheetNames(UninterruptedScan(inv[p].key.period))]_vars

\* C31: when executions of one key overlap, the checkpoint left behind once
\* they have all ended has both of its properties and its list holds the
\* reports of exactly the sheets below its cursor; and a scan that completes
\* returns the reports of exactly the sheets an uninterrupted scan reports,
\* each once.
C31_OverlapKeepsCheckpoint ==
  /\ []((\A p \in Procs : inv[p].pc = "idle")
          => \A k \in Keys :
               /\ HasProperty(props, storedDataKey(k)) <=> HasProperty(props, currentSheetIndexKey(k))
               /\ HasProperty(props, storedDataKey(k))
                    => SheetNames(props[storedDataKey(k)].value)
                         = SheetNames(ReportsOfSheets(0, parseInt(props[currentSheetIndexKey(k)]),
                                                      k.period)))
  /\ [][\A p \in Procs :
          (inv[p].pc = "scan" /\ inv'[p].pc = "dispatch" /\ inv'[p].ret.isArray)
            => SheetNames(inv'[p].ret.value) = SheetNames(UninterruptedScan(inv[p].key.period))]_vars

\* C32: a dispatch that writes a document or sends a message holds the list
\* returned by a scan that read the sheets to the end of the list, with the
\* gate COMPLETED: the list has a report of exactly the sheets an
\* uninterrupted scan reports; the execution of a suspended scan, which holds
\* a partial list and returned undefined, writes and sends nothing.
C32_DispatchOnlyCompleteResult ==
  [][\A p \in Procs :
       (inv[p].pc = "dispatch" /\ inv'[p].pc = "idle")
         => /\ (docs' # docs \/ outbox' # <<>>)
                 => /\ inv[p].ret.isArray
                    /\ inv[p].currentSheetIndex = Len(sheets)
                    /\ inv[p].ret.value = inv[p].reminderData
                    /\ Gate(inv[p].key) = COMPLETED
                    /\ SheetNames(inv[p].ret.value)
                         = SheetNames(UninterruptedScan(inv[p].key.period))
            /\ ~inv[p].ret.isArray => (docs' = docs /\ outbox' = <<>>)]_vars

\* A dispatch has filled a document and sent its message in a cycle in which
\* the scan had been suspended before.
C32_Witness ==
  /\ last.op = "dispatch" /\ last.outcome \in {"general-success", "staff-done"}
  /\ nextTriggerId > 1
  /\ \E d \in DocIds : docs[d] # BlankDoc
  /\ outbox # <<>>
  /\ cycle[last.key].done = 1

\* C33: in every list of reports the program holds (the list of an execution,
\* the list it returned, the list stored in a checkpoint) the reports are in
\* strictly increasing order of the position of their sheets, and the tasks
\* of each report are in strictly increasing order of their rows.
SheetPosition(name) == CHOOSE i \in 1..Len(sheets) : sheets[i].name = name
RowPosition(name, task) ==
  CHOOSE r \in 1..Len(sheets[SheetPosition(name)].rows) :
    CellToJSON(sheets[SheetPosition(name)].rows[r].item) = CellToJSON(task.item)
InSheetAndRowOrder(reminderData) ==
  /\ \A a \in 1..Len(reminderData) :
       /\ \E i \in 1..Len(sheets) : sheets[i].name = reminderData[a].sheetName
       /\ \A x \in 1..Len(reminderData[a].taskData) :
            /\ \E r \in 1..Len(sheets[SheetPosition(reminderData[a].sheetName)].rows) :
                 CellToJSON(sheets[SheetPosition(reminderData[a].sheetName)].rows[r].item)
                   = CellToJSON(reminderData[a].taskData[x].item)
            /\ \A y \in 1..Len(reminderData[a].taskData) :
                 x < y => RowPosition(reminderData[a].sheetName, reminderData[a].taskData[x])
                            < RowPosition(reminderData[a].sheetName, reminderData[a].taskData[y])
  /\ \A a, b \in 1..Len(reminderData) :
       a < b => SheetPosition(reminderData[a].sheetName) < SheetPosition(reminderData[b].sheetName)
C33_ListInSourceOrder ==
  /\ \A p \in Procs : InSheetAndRowOrder(inv[p].reminderData) /\ InSheetAndRowOrder(inv[p].ret.value)
  /\ \A k \in Keys :
       (HasProperty(props, storedDataKey(k)) /\ props[storedDataKey(k)].wellFormed)
         => InSheetAndRowOrder(props[storedDataKey(k)].value)

\* A scan resumed from a stored report has completed with a second report
\* behind the reloaded one, each of the two with two tasks.
C33_Witness ==
  /\ last.op = "complete" /\ last.outcome # "0"
  /\ \E p \in Procs :
       /\ inv[p].ret.isArray /\ Len(inv[p].ret.value) >= 2
       /\ Len(inv[p].ret.value[1].taskData) >= 2
       /\ Len(inv[p].ret.value[2].taskData) >= 2

\* C34: for a scan on any day of the week, the five dates the loop pushes
\* behind today are strictly increasing, none of them is a Saturday or a
\* Sunday, each is the start of its day, and their days are exactly the first
\* five days after today that are not a Saturday or a Sunday.
C34_FiveBusinessDays ==
  (call.fn = "validDates" /\ call.done) =>
    LET v == call.result
    IN /\ Len(v) = 5 + 1
       /\ v[1] = setHoursZero(call.now)
       /\ \A j \in 1..5 : v[j] < v[j + 1]
       /\ \A j \in 2..(5 + 1) : getDay(v[j]) \notin {0, 6} /\ v[j] % TicksPerDay = 0
       /\ {CalendarDay(v[j]) : j \in 2..(5 + 1)} = NextFiveBusinessDays(CalendarDay(call.now))

\* validDates was computed on a Friday: the first pushed date is three days
\* later and the last one a week later.
C34_Witness ==
  /\ call.fn = "validDates" /\ call.done
  /\ getDay(call.now) = 5
  /\ CalendarDay(call.result[2]) = CalendarDay(call.now) + 3
  /\ CalendarDay(call.result[5 + 1]) = CalendarDay(call.now) + 7

\* C35: the stored cursor of a key is never greater than the number of
\* sheets, and as long as it stays stored (from one suspension of the scan to
\* the next one of the same cycle) no step makes it smaller.
StoredCursor(k) == parseInt(props[currentSheetIndexKey(k)])
C35_CursorMonotone ==
  /\ [](\A k \in Keys :
          HasProperty(props, currentSheetIndexKey(k)) => StoredCursor(k) <= Len(sheets))
  /\ [][\A k \in Keys :
          (HasProperty(props, currentSheetIndexKey(k)) /\ HasProperty(props', currentSheetIndexKey(k)))
            => StoredCursor(k) <= StoredCursor(k)']_vars

\* A resumed scan has been suspended again in the same cycle, at a later
\* sheet: the first continuation of the key has fired and the second waits.
C35_Witness ==
  /\ last.op = "timeout"
  /\ HasProperty(props, currentSheetIndexKey(last.key)) /\ StoredCursor(last.key) >= 2
  /\ \E t, u \in triggers :
       /\ t.fired /\ ~u.fired
       /\ t.handler = triggerFunctionName(last.key)
       /\ u.handler = triggerFunctionName(last.key)
  /\ runs = 1

\* C36: the dispatch of an execution whose scan completed with no report
\* changes no document, sends no message, and changes no property and no
\* trigger: the gate of the key stays COMPLETED.
C36_EmptyResultIsSilent ==
  [][\A p \in Procs, k \in Keys :
       (/\ inv[p].pc = "dispatch" /\ inv'[p].pc = "idle" /\ inv[p].key = k
        /\ inv[p].ret.isArray /\ Len(inv[p].ret.value) = 0)
         => /\ docs' = docs
            /\ outbox' = <<>>
            /\ UNCHANGED <<props, triggers>>
            /\ Gate(k)' = COMPLETED
            /\ last'.outcome = "empty"]_vars

\* A staffBased dispatch with configured staff has returned on an empty
\* result and the gate of its key is COMPLETED.
C36_Witness ==
  /\ last.op = "dispatch" /\ last.outcome = "empty"
  /\ last.key.target = "staffBased" /\ StaffSet
  /\ Gate(last.key) = COMPLETED
  /\ Len(sheets) >= 2

\* C37: when a document cannot be opened during a dispatch, the dispatch
\* still returns to its caller; the staff members behind the one whose
\* document failed get no message and their documents are not written; the
\* staff members before it keep the message that was sent to them; and no
\* property changes, so the gate stays COMPLETED. For the general target
\* nothing is sent and nothing written.
Throws(url) == url # NullUrl /\ OpenByIdThrows(extractDocIdFromUrl(url))
FirstThrowing(period) ==
  CHOOSE j \in 1..Len(StaffData) :
    /\ Throws(StaffUrl(StaffData[j], period))
    /\ \A x \in 1..(j - 1) : ~Throws(StaffUrl(StaffData[x], period))
C37_ErrorIsCaught ==
  [][\A p \in Procs, k \in Keys :
       (/\ inv[p].pc = "dispatch" /\ inv'[p].pc = "idle" /\ inv[p].key = k
        /\ Gate(k) = COMPLETED /\ inv[p].ret.isArray /\ Len(inv[p].ret.value) > 0)
         => /\ (k.target = "general" /\ GeneralSet /\ Throws(GeneralUrl(k.period)))
                 => /\ last'.outcome = "threw"
                    /\ UNCHANGED <<props, triggers, docs>>
                    /\ outbox' = <<>>
            /\ (k.target = "staffBased" /\ StaffSet
                  /\ \E j \in 1..Len(StaffData) : Throws(StaffUrl(StaffData[j], k.period)))
                 => LET j0 == FirstThrowing(k.period)
                    IN /\ last'.outcome = "threw"
                       /\ UNCHANGED <<props, triggers>>
                       /\ Gate(k)' = COMPLETED
                       /\ Len(outbox') = j0 - 1
                       /\ \A x \in 1..(j0 - 1) :
                            /\ outbox'[x].to = <<StaffData[x].email>>
                            /\ outbox'[x].subject = StaffTitle(k.period, StaffData[x].name, today)
                       /\ \A d \in DocIds :
                            docs'[d] # docs[d]
                              => \E x \in 1..(j0 - 1) : StaffUrl(StaffData[x], k.period) = Url(d, TRUE)]_vars

\* A staffBased dispatch has stopped at the second staff member: the first
\* one has a message and a written document, the gate is COMPLETED.
C37_Witness ==
  /\ last.op = "dispatch" /\ last.outcome = "threw"
  /\ last.key.target = "staffBased"
  /\ Len(outbox) = 1 /\ outbox[1].successOrFailure = "success"
  /\ \E d \in DocIds : docs[d] # BlankDoc
  /\ Gate(last.key) = COMPLETED

\* C38: for the same rows and the same today, every report of the scan for
\* period 'today' has a report of the same sheet in the scan for period
\* 'week', and every task of the former is a task of the latter.
C38_TodayWithinWeek ==
  (call.fn = "bothPeriods" /\ call.done) =>
    \A a \in 1..Len(call.resultToday) :
      \E b \in 1..Len(call.resultWeek) :
        /\ call.resultWeek[b].sheetName = call.resultToday[a].sheetName
        /\ call.resultWeek[b].sheetURL = call.resultToday[a].sheetURL
        /\ \A x \in 1..Len(call.resultToday[a].taskData) :
             \E y \in 1..Len(call.resultWeek[b].taskData) :
               call.resultWeek[b].taskData[y] = call.resultToday[a].taskData[x]

\* Both scans were made over a sheet with an overdue unchecked row: the scan
\* for 'today' reports it.
C38_Witness ==
  /\ call.fn = "bothPeriods" /\ call.done
  /\ call.resultToday # <<>>
  /\ \E i \in 1..Len(call.rows) :
       call.rows[i].date # EmptyCell /\ CalendarDay(call.rows[i].date.n) < CalendarDay(call.now)

\* The URLs submitted in one call, field by field, and the documents of the
\* stored URLs of the general target and of each staff member.
SubmittedUrls ==
  <<call.passedData.generalTodayReminderDocUrl, call.passedData.generalWeekReminderDocUrl>>
    \o StaffUrls(call.passedData.staffBasedReminderData, 1)
DocsOf(urls) == {urls[j].doc : j \in {x \in 1..Len(urls) : urls[x] # NullUrl}}
StoredGeneralDocs(p) ==
  IF HasProperty(p, SCRIPT_PROPERTY_KEY_GENERAL_REM_DOC_URL)
  THEN DocsOf(<<p[SCRIPT_PROPERTY_KEY_GENERAL_REM_DOC_URL].value.generalTodayReminderDocUrl,
                p[SCRIPT_PROPERTY_KEY_GENERAL_REM_DOC_URL].value.generalWeekReminderDocUrl>>)
  ELSE {}
StoredStaff(p) ==
  IF HasProperty(p, SCRIPT_PROPERTY_KEY_STAFFBASED_REM_DATA)
  THEN p[SCRIPT_PROPERTY_KEY_STAFFBASED_REM_DATA].value
  ELSE <<>>
StoredStaffDocs(p, j) ==
  DocsOf(<<StoredStaff(p)[j].todayReminderUrl, StoredStaff(p)[j].nextWeekReminderUrl>>)
SomeInvalid ==
  \E a \in 1..Len(SubmittedUrls) :
    SubmittedUrls[a] # NullUrl /\ SubmittedUrls[a].doc \notin DocIds
SomeRepeated ==
  \E a, b \in 1..Len(SubmittedUrls) :
    a # b /\ SubmittedUrls[a] # NullUrl /\ SubmittedUrls[a] = SubmittedUrls[b]
NoSharedDocument(p) ==
  /\ \A j \in 1..Len(StoredStaff(p)) : StoredGeneralDocs(p) \cap StoredStaffDocs(p, j) = {}
  /\ \A i, j \in 1..Len(StoredStaff(p)) :
       i # j => StoredStaffDocs(p, i) \cap StoredStaffDocs(p, j) = {}
Stored == call.fn = "storeReminderInfo" /\ call.done

\* C39: a call of storeReminderInfo with an invalid URL or with one URL in
\* two fields leaves the stored settings as they were, and after any call no
\* document is named by stored URLs of two recipients (the general target and
\* a staff member, or two staff members).
C39_StoreAllOrNothing ==
  Stored =>
    /\ (SomeInvalid \/ SomeRepeated) => props = call.before
    /\ NoSharedDocument(props)

\* C40: every trigger of the project, recurring (setReminderTrigger) or
\* continuation (createOneTimeTrigger), names a function the project defines,
\* and every reminder trigger names one of the four entry points.
C40_TriggersNameDefinedFunctions ==
  \A t \in triggers :
    /\ t.handler \in DefinedHandlers
    /\ t.handler # "updateCompletionStatusToSheet" => t.handler \in EntryPoints

====
